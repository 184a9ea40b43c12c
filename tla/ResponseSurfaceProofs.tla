----------------------- MODULE ResponseSurfaceProofs -----------------------
(***************************************************************************)
(* Proofs about ResponseSurface: its windows stay sound, its verdicts are  *)
(* those GovernorCore permits, its calls implement those of GovernorCore,  *)
(* re-probes are safe, exports load and a restart from them is cautious,   *)
(* for every size of the surface, every profile and every threshold.       *)
(***************************************************************************)
EXTENDS ResponseSurface, SetSums

-----------------------------------------------------------------------------
(* The invariant.                                                          *)

Surfaces == UNION {[K -> SurfaceCells] : K \in SUBSET Keys}
Priors == UNION {[K -> Rates] : K \in SUBSET Keys}

States ==
  [ epoch : Nat, revision : Nat \ {0}, reference : Nat, active : 0 .. NativeMaxRunning,
    quarantined : BOOLEAN, last_time : Times \cup {NoTime}, deadline : Nat,
    surface : Surfaces, prior : Priors, run : Windows, run_has_tokens : BOOLEAN ]

\* A cell was observed no later than at "at", qualified no later than it was
\* observed, keeps nothing later, and has no tokens without seconds.
CellSound(cell, at) ==
  /\ cell.last_time <= at /\ cell.last_qualified <= cell.last_time
  /\ \A t \in Times :
       /\ cell.window[t] # Nothing => t <= cell.last_time
       /\ cell.window[t].seconds = 0 => cell.window[t].tokens = 0

Sound(s) ==
  /\ s \in States
  /\ \A key \in DOMAIN s.surface : CellSound(s.surface[key], s.last_time)

\* The active run holds nothing from before "since".
RunFrom(s, since) == \A t \in Times : s.run[t] # Nothing => t >= since

SurfaceInv ==
  /\ Sound(state)
  /\ surface_time \in Times \cup {NoTime} /\ surface_time <= state.last_time
  /\ state.active > 0 =>
       run_since \in Times /\ run_since <= state.last_time /\ RunFrom(state, run_since)

-----------------------------------------------------------------------------
(* Values.                                                                 *)

\* What the assumptions say of the numbers.
LEMMA Constants ==
  /\ NativeMaxRunning \in Nat \ {0} /\ MaxTime \in Nat /\ WINDOW \in Nat
  /\ SHORT_WINDOW \in Nat /\ SHORT_WINDOW <= WINDOW
  /\ MIN_EXPOSURE \in Nat \ {0} /\ MAX_SURFACE_AGE \in Nat /\ TTL \in Nat \ {0}
  /\ Times \subseteq Nat /\ NoTime = -1 /\ Nothing \in Rates
BY SurfaceAssumption DEF SurfaceAssumption, Times, NoTime, Nothing, Rates

\* Products of naturals are naturals.
LEMMA Products == \A a, b \in Nat : a * b \in Nat
OBVIOUS

\* A surface has cells of the core's keys.
LEMMA SurfaceCellsOf ==
  ASSUME NEW f \in Surfaces
  PROVE  /\ DOMAIN f \subseteq Keys /\ f = [key \in DOMAIN f |-> f[key]]
         /\ \A key \in DOMAIN f : f[key] \in SurfaceCells
BY DEF Surfaces

\* A function from some keys to cells is a surface.
LEMMA SurfaceOf ==
  ASSUME NEW K \in SUBSET Keys, NEW f, f = [key \in K |-> f[key]],
         \A key \in K : f[key] \in SurfaceCells
  PROVE  f \in Surfaces
BY DEF Surfaces

\* The windows remain windows.
LEMMA AgedWindow ==
  ASSUME NEW w \in Windows, NEW now \in Times
  PROVE  /\ Aged(w, now) \in Windows
         /\ \A t \in Times : Aged(w, now)[t] = w[t] \/ Aged(w, now)[t] = Nothing
BY Constants DEF Aged, Windows

\* What a window gains, it gains at the present time.
LEMMA GainedWindow ==
  ASSUME NEW w \in Windows, NEW now \in Times, NEW delta \in Nat, NEW seconds \in Nat
  PROVE  /\ Gained(w, now, delta, seconds) \in Windows
         /\ \A t \in Times \ {now} : Gained(w, now, delta, seconds)[t] = w[t]
         /\ Gained(w, now, delta, seconds)[now] =
              [tokens |-> w[now].tokens + delta, seconds |-> w[now].seconds + seconds]
BY DEF Gained, Windows, Rates

\* Nothing is recorded in the empty window.
LEMMA EmptyWindow == EMPTY \in Windows /\ \A t \in Times : EMPTY[t] = Nothing
BY Constants DEF EMPTY, Windows
-----------------------------------------------------------------------------
(* Calls keep the state sound.                                             *)

\* The parts of a sound state.
LEMMA FieldsOf ==
  ASSUME NEW s, Sound(s)
  PROVE  /\ s \in States /\ s.run \in Windows /\ s.active \in Nat
         /\ s.active <= NativeMaxRunning /\ s.surface \in Surfaces /\ s.reference \in Nat
         /\ s.last_time \in Times \cup {NoTime} /\ s.last_time \in Int
         /\ s.prior \in Priors /\ s.deadline \in Nat
         /\ \A key \in DOMAIN s.surface : CellSound(s.surface[key], s.last_time)
<1>1. s \in States
  BY DEF Sound
<1>2. /\ s.run \in Windows /\ s.active \in 0 .. NativeMaxRunning /\ s.surface \in Surfaces
      /\ s.reference \in Nat /\ s.last_time \in Times \cup {NoTime} /\ s.prior \in Priors
      /\ s.deadline \in Nat
  BY <1>1 DEF States
<1>3. s.last_time \in Int
  BY <1>2 DEF Times, NoTime
<1>4. s.active \in Nat /\ s.active <= NativeMaxRunning
  BY <1>2
<1> QED
  BY <1>1, <1>2, <1>3, <1>4 DEF Sound

\* What an observation leaves alone.
Kept(d, s) ==
  /\ d.epoch = s.epoch /\ d.revision = s.revision /\ d.reference = s.reference
  /\ d.deadline = s.deadline /\ d.prior = s.prior

\* Time passes: cells and run lose what is old, the run gains exposure.
LEMMA Advances ==
  ASSUME NEW s, Sound(s), NEW now \in Times, Accepts(s, now), NEW counting,
         NEW d, d = AdvanceClock(s, now, counting)
  PROVE  /\ Sound(d) /\ Kept(d, s)
         /\ d.last_time = now /\ d.active = s.active /\ d.quarantined = s.quarantined
         /\ DOMAIN d.surface = DOMAIN s.surface
         /\ \A since \in Int : RunFrom(s, since) /\ since <= s.last_time => RunFrom(d, since)
<1> DEFINE longer == IF counting THEN Exposed(s, now) ELSE s.run
           cells == AgedCells(s, now)
<1>1. /\ s \in States /\ s.run \in Windows /\ s.active \in Nat /\ s.surface \in Surfaces
      /\ s.last_time \in Times \cup {NoTime} /\ s.last_time <= now /\ s.last_time \in Int
      /\ \A key \in DOMAIN s.surface : CellSound(s.surface[key], s.last_time)
  BY FieldsOf DEF Accepts
<1>2. d = [s EXCEPT !.last_time = now, !.run = Aged(longer, now), !.surface = cells]
  BY DEF AdvanceClock
<1>3. longer \in Windows
  <2>1. ASSUME NEW t \in Times PROVE Exposed(s, now)[t] \in Rates
    BY <1>1 DEF Exposed, Windows, Rates
  <2>2. Exposed(s, now) \in Windows
    BY <2>1 DEF Exposed, Windows
  <2> QED
    BY <1>1, <2>2
<1>4. ASSUME NEW key \in DOMAIN s.surface
      PROVE  cells[key] \in SurfaceCells /\ CellSound(cells[key], now)
  <2>1. /\ s.surface[key] \in SurfaceCells /\ CellSound(s.surface[key], s.last_time)
        /\ cells[key] = [s.surface[key] EXCEPT !.window = Aged(s.surface[key].window, now)]
    BY <1>1, <1>4, SurfaceCellsOf DEF AgedCells
  <2>2. s.surface[key].window \in Windows
    BY <2>1 DEF SurfaceCells
  <2>3. /\ Aged(s.surface[key].window, now) \in Windows
        /\ \A t \in Times : \/ Aged(s.surface[key].window, now)[t] = s.surface[key].window[t]
                            \/ Aged(s.surface[key].window, now)[t] = Nothing
    BY <2>2, AgedWindow
  <2>4. cells[key] \in SurfaceCells
    BY <2>1, <2>3 DEF SurfaceCells
  <2>5. Nothing.tokens = 0
    BY DEF Nothing
  <2>6. cells[key].last_time <= now
    BY <1>1, <2>1, Constants DEF CellSound, SurfaceCells
  <2> QED
    BY <2>1, <2>3, <2>4, <2>5, <2>6 DEF CellSound, SurfaceCells
<1>5. cells \in Surfaces
  <2>1. DOMAIN s.surface \in SUBSET Keys
    BY <1>1, SurfaceCellsOf
  <2> HIDE DEF cells
  <2>2. cells = [key \in DOMAIN s.surface |-> cells[key]]
    BY DEF cells, AgedCells
  <2> QED
    BY <1>4, <2>1, <2>2, SurfaceOf
<1>6. Aged(longer, now) \in Windows
  BY <1>3, AgedWindow
<1>7. ASSUME NEW since \in Int, RunFrom(s, since), since <= s.last_time
      PROVE  RunFrom(d, since)
  <2>1. d.run = Aged(longer, now)
    BY <1>1, <1>2 DEF States
  <2>2. ASSUME NEW t \in Times, longer[t] # Nothing PROVE t >= since
    <3>1. CASE s.last_time # NoTime /\ s.last_time <= t
      BY <1>1, <1>7, <3>1, Constants
    <3>2. CASE ~(s.last_time # NoTime /\ s.last_time <= t)
      <4>1. longer[t] = s.run[t]
        BY <1>1, <3>2 DEF Exposed, Windows, Rates
      <4> QED
        BY <1>7, <2>2, <4>1 DEF RunFrom
    <3> QED
      BY <3>1, <3>2
  <2> HIDE DEF longer
  <2> QED
    BY <1>3, <2>1, <2>2, AgedWindow DEF RunFrom
<1> HIDE DEF longer, cells
<1>8. /\ d \in States /\ d.surface = cells /\ d.last_time = now /\ d.active = s.active
      /\ d.quarantined = s.quarantined
  BY <1>1, <1>2, <1>5, <1>6 DEF States
<1>9. Kept(d, s)
  BY <1>1, <1>2 DEF States, Kept
<1>10. DOMAIN cells = DOMAIN s.surface
  BY DEF cells, AgedCells
<1> QED
  BY <1>4, <1>7, <1>8, <1>9, <1>10 DEF Sound

\* An emptied run.
LEMMA Clears ==
  ASSUME NEW s, Sound(s), NEW d, d = ClearRun(s)
  PROVE  /\ Sound(d) /\ Kept(d, s)
         /\ d.last_time = s.last_time /\ d.active = s.active
         /\ d.quarantined = s.quarantined /\ d.surface = s.surface
         /\ \A since : RunFrom(d, since)
<1>1. s \in States /\ d = [s EXCEPT !.run = EMPTY, !.run_has_tokens = FALSE]
  BY DEF Sound, ClearRun
<1>2. /\ d \in States /\ d.last_time = s.last_time /\ d.active = s.active
      /\ d.quarantined = s.quarantined /\ d.surface = s.surface /\ d.run = EMPTY
  BY <1>1, EmptyWindow DEF States
<1>3. Kept(d, s)
  BY <1>1 DEF States, Kept
<1> QED
  BY <1>2, <1>3, EmptyWindow DEF Sound, RunFrom

\* The active count changes.
LEMMA Counts ==
  ASSUME NEW s, Sound(s), NEW active \in 0 .. NativeMaxRunning,
         NEW d, d = [s EXCEPT !.active = active]
  PROVE  /\ Sound(d) /\ Kept(d, s) /\ d.active = active
         /\ d.last_time = s.last_time /\ d.quarantined = s.quarantined
         /\ d.surface = s.surface /\ d.run = s.run
<1>1. s \in States
  BY DEF Sound
<1>2. /\ d \in States /\ d.active = active
      /\ d.last_time = s.last_time /\ d.quarantined = s.quarantined
      /\ d.surface = s.surface /\ d.run = s.run
  BY <1>1 DEF States
<1>3. Kept(d, s)
  BY <1>1 DEF States, Kept
<1> QED
  BY <1>2, <1>3 DEF Sound

\* Tokens enter the run, which is emptied first when it begins.
LEMMA UpdatesRun ==
  ASSUME NEW s, Sound(s), NEW now \in Times, NEW active_after \in 0 .. NativeMaxRunning,
         NEW delta \in Nat, NEW d, d = UpdateActiveRun(s, active_after, now, delta)
  PROVE  /\ Sound(d) /\ Kept(d, s)
         /\ d.last_time = s.last_time /\ d.active = s.active
         /\ d.quarantined = s.quarantined /\ d.surface = s.surface
         /\ s.active = 0 /\ active_after > 0 => RunFrom(d, now)
         /\ \A since \in Int : RunFrom(s, since) /\ since <= now => RunFrom(d, since)
<1> DEFINE fresh == IF s.active = 0 /\ active_after > 0 THEN ClearRun(s) ELSE s
           more == Gained(fresh.run, now, delta, 0)
<1>1. /\ Sound(fresh) /\ Kept(fresh, s)
      /\ fresh.last_time = s.last_time /\ fresh.active = s.active
      /\ fresh.quarantined = s.quarantined /\ fresh.surface = s.surface
      /\ s.active = 0 /\ active_after > 0 => RunFrom(fresh, now)
      /\ \A since \in Int : RunFrom(s, since) => RunFrom(fresh, since)
  BY Clears DEF Kept
<1>2. \/ d = fresh
      \/ d = [fresh EXCEPT !.run = more, !.run_has_tokens = TRUE]
  BY DEF UpdateActiveRun
<1> HIDE DEF fresh
<1>3. CASE d = fresh
  BY <1>1, <1>3
<1>4. CASE d = [fresh EXCEPT !.run = more, !.run_has_tokens = TRUE]
  <2>1. fresh \in States /\ fresh.run \in Windows
    BY <1>1, FieldsOf
  <2>2. more \in Windows /\ \A t \in Times \ {now} : more[t] = fresh.run[t]
    <3>1. fresh.run \in Windows /\ now \in Times /\ delta \in Nat /\ 0 \in Nat
      BY <2>1
    <3>2. PICK w \in Windows : w = fresh.run
      BY <3>1
    <3>3. Gained(w, now, delta, 0) \in Windows
      BY <3>1 DEF Gained, Windows, Rates
    <3>4. \A t \in Times \ {now} : Gained(w, now, delta, 0)[t] = w[t]
      BY <3>1 DEF Gained, Windows
    <3> QED
      BY <3>2, <3>3, <3>4
  <2> HIDE DEF more
  <2>0. d \in States
    BY <1>4, <2>1, <2>2 DEF States
  <2>3. /\ d \in States /\ d.last_time = fresh.last_time /\ d.active = fresh.active
        /\ d.quarantined = fresh.quarantined /\ d.surface = fresh.surface /\ d.run = more
    BY <1>4, <2>0, <2>1 DEF States
  <2>4. Kept(d, s)
    BY <1>1, <1>4, <2>1 DEF States, Kept
  <2>5. ASSUME NEW since \in Int, RunFrom(fresh, since), since <= now PROVE RunFrom(d, since)
    BY <2>2, <2>3, <2>5, Constants DEF RunFrom
  <2>6. now \in Int /\ now <= now
    BY Constants
  <2>7. Sound(d)
    BY <1>1, <2>3 DEF Sound
  <2> QED
    BY <1>1, <2>3, <2>4, <2>5, <2>6, <2>7
<1> QED
  BY <1>2, <1>3, <1>4

\* A batch enters its cell.
LEMMA CellObserves ==
  ASSUME NEW cell, cell.window \in Windows, cell.last_qualified \in Times \cup {NoTime},
         NEW now \in Times, cell.last_qualified <= now,
         \A t \in Times :
           /\ cell.window[t] # Nothing => t <= now
           /\ cell.window[t].seconds = 0 => cell.window[t].tokens = 0,
         NEW delta \in Nat, NEW seconds \in Nat, delta > 0 => seconds > 0
  PROVE  /\ CellObserve(cell, now, delta, seconds) \in SurfaceCells
         /\ CellSound(CellObserve(cell, now, delta, seconds), now)
         /\ CellObserve(cell, now, delta, seconds).last_time = now
<1> DEFINE w == Gained(cell.window, now, delta, seconds)
           exposed == seconds > 0 /\ Evidence(w, now, WINDOW).seconds >= MIN_EXPOSURE
           after == CellObserve(cell, now, delta, seconds)
<1>1. after = [ window |-> w, last_time |-> now,
                last_qualified |-> IF exposed THEN now ELSE cell.last_qualified ]
  BY DEF CellObserve
<1>2. /\ w \in Windows /\ \A t \in Times \ {now} : w[t] = cell.window[t]
      /\ w[now] = [tokens |-> cell.window[now].tokens + delta,
                   seconds |-> cell.window[now].seconds + seconds]
  BY GainedWindow
<1>3. w[now].seconds = 0 => w[now].tokens = 0
  <2>1. cell.window[now] \in Rates
    BY DEF Windows
  <2> QED
    BY <1>2, <2>1 DEF Rates
<1>4. now \in Int /\ now <= now
  BY Constants
<1> HIDE DEF w, exposed, after
<1>5. after \in SurfaceCells
  BY <1>1, <1>2 DEF SurfaceCells
<1>6. /\ after.last_time = now /\ after.last_qualified <= now /\ after.window = w
  BY <1>1, <1>4
<1>7. \A t \in Times :
        /\ w[t] # Nothing => t <= now
        /\ w[t].seconds = 0 => w[t].tokens = 0
  <2> TAKE t \in Times
  <2>1. CASE t = now
    BY <1>3, <1>4, <2>1
  <2>2. CASE t # now
    BY <1>2, <2>2
  <2> QED
    BY <2>1, <2>2
<1> QED
  BY <1>4, <1>5, <1>6, <1>7 DEF CellSound, after
\* An accepted observation at "now" that leaves "active_after" decoding.
Observes(d, s, now, active_after) ==
  /\ Sound(d) /\ Kept(d, s) /\ d.last_time = now /\ d.active = active_after
  /\ s.active = 0 /\ active_after > 0 => RunFrom(d, now)
  /\ \A since \in Int : RunFrom(s, since) /\ since <= s.last_time => RunFrom(d, since)

\* The observation of a batch keeps the state sound.
LEMMA ObservesInPlace ==
  ASSUME NEW s, Sound(s), NEW now \in Times, Accepts(s, now),
         NEW delta \in Nat, NEW active_after \in 0 .. NativeMaxRunning,
         NEW d, d = ObserveInPlace(s, now, delta, active_after)
  PROVE  /\ Observes(d, s, now, active_after)
         /\ d.quarantined = s.quarantined /\ DOMAIN d.surface = DOMAIN s.surface
<1> DEFINE ahead == Advance(s, now)
           updated == UpdateActiveRun(ahead, active_after, now, delta)
<1>1. d = [updated EXCEPT !.active = active_after]
  BY DEF ObserveInPlace
<1>2. Accepts(s, now) /\ s.last_time <= now
  BY DEF Accepts
<1>3. /\ Sound(ahead) /\ Kept(ahead, s)
      /\ ahead.last_time = now /\ ahead.active = s.active /\ ahead.quarantined = s.quarantined
      /\ DOMAIN ahead.surface = DOMAIN s.surface
      /\ \A since \in Int : RunFrom(s, since) /\ since <= s.last_time => RunFrom(ahead, since)
  BY <1>2, Advances DEF Advance
<1> HIDE DEF ahead
<1>4. /\ Sound(updated) /\ Kept(updated, ahead)
      /\ updated.last_time = now /\ updated.quarantined = s.quarantined
      /\ updated.surface = ahead.surface
      /\ s.active = 0 /\ active_after > 0 => RunFrom(updated, now)
      /\ \A since \in Int : RunFrom(ahead, since) /\ since <= now => RunFrom(updated, since)
  BY <1>3, UpdatesRun
<1> HIDE DEF updated
<1>5. /\ Sound(d) /\ Kept(d, updated) /\ d.active = active_after
      /\ d.last_time = updated.last_time /\ d.quarantined = updated.quarantined
      /\ d.surface = updated.surface /\ d.run = updated.run
  BY <1>1, <1>4, Counts
<1>6. Kept(d, s)
  BY <1>3, <1>4, <1>5 DEF Kept
<1>7. \A since : RunFrom(updated, since) => RunFrom(d, since)
  BY <1>5 DEF RunFrom
<1>8. s.last_time \in Int /\ now \in Int
  BY FieldsOf, Constants
<1>9. \A since \in Int : RunFrom(s, since) /\ since <= s.last_time => RunFrom(d, since)
  BY <1>2, <1>3, <1>4, <1>7, <1>8
<1> QED
  BY <1>3, <1>4, <1>5, <1>6, <1>7, <1>9 DEF Observes

\* The time and the evidence of a cell that is there, or of a new one.
LEMMA ObservesBatch ==
  ASSUME NEW s, Sound(s), NEW now \in Times, NEW delta \in Nat, NEW seconds \in Nat,
         NEW key, NEW active_after \in 0 .. NativeMaxRunning,
         ObserveBatchAccepts(s, now, delta, seconds, key, active_after),
         NEW d, d = ObserveBatchInPlace(s, now, delta, seconds, key, active_after)
  PROVE  /\ Observes(d, s, now, active_after)
         /\ d.quarantined = s.quarantined /\ DOMAIN d.surface = DOMAIN s.surface \cup {key}
<1> DEFINE ahead == Advance(s, now)
           updated == UpdateActiveRun(ahead, active_after, now, delta)
           cell == IF key \in DOMAIN s.surface THEN ahead.surface[key] ELSE NewCell
           observed == CellObserve(cell, now, delta, seconds)
           cells == [k \in DOMAIN s.surface \cup {key} |->
                       IF k = key THEN observed ELSE ahead.surface[k]]
<1>1. d = [updated EXCEPT !.surface = cells, !.active = active_after]
  BY DEF ObserveBatchInPlace
<1>2. /\ Accepts(s, now) /\ s.last_time <= now
      /\ key \in Keys
      /\ delta > 0 => seconds > 0
  BY DEF Accepts, ObserveBatchAccepts
<1>3. /\ Sound(ahead) /\ Kept(ahead, s)
      /\ ahead.last_time = now /\ ahead.active = s.active /\ ahead.quarantined = s.quarantined
      /\ DOMAIN ahead.surface = DOMAIN s.surface
      /\ \A since \in Int : RunFrom(s, since) /\ since <= s.last_time => RunFrom(ahead, since)
  BY <1>2, Advances DEF Advance
<1> HIDE DEF ahead
<1>4. /\ Sound(updated) /\ Kept(updated, ahead)
      /\ updated.last_time = now /\ updated.quarantined = s.quarantined
      /\ updated.surface = ahead.surface
      /\ s.active = 0 /\ active_after > 0 => RunFrom(updated, now)
      /\ \A since \in Int : RunFrom(ahead, since) /\ since <= now => RunFrom(updated, since)
  BY <1>3, UpdatesRun
<1> HIDE DEF updated
<1>5. /\ ahead.surface \in Surfaces
      /\ \A k \in DOMAIN s.surface : CellSound(ahead.surface[k], now)
  BY <1>3, FieldsOf
<1>6. DOMAIN s.surface \in SUBSET Keys /\ \A k \in DOMAIN s.surface : ahead.surface[k] \in SurfaceCells
  BY <1>3, <1>5, SurfaceCellsOf
<1>7. /\ cell.window \in Windows /\ cell.last_qualified \in Times \cup {NoTime}
      /\ cell.last_qualified <= now
      /\ \A t \in Times :
           /\ cell.window[t] # Nothing => t <= now
           /\ cell.window[t].seconds = 0 => cell.window[t].tokens = 0
  <2>1. CASE key \in DOMAIN s.surface
    <3>1. cell \in SurfaceCells /\ CellSound(cell, now)
      BY <1>5, <1>6, <2>1
    <3> HIDE DEF cell
    <3>2. /\ cell.window \in Windows /\ cell.last_qualified \in Times \cup {NoTime}
          /\ cell.last_time \in Times
      BY <3>1 DEF SurfaceCells
    <3>3. /\ cell.last_qualified \in Int /\ cell.last_time \in Int /\ now \in Int
          /\ \A t \in Times : t \in Int
      BY <3>2 DEF Times, NoTime
    <3>4. /\ cell.last_time <= now /\ cell.last_qualified <= cell.last_time
          /\ \A t \in Times :
               /\ cell.window[t] # Nothing => t <= cell.last_time
               /\ cell.window[t].seconds = 0 => cell.window[t].tokens = 0
      BY <3>1, Zenon DEF CellSound
    <3>5. cell.last_qualified <= now
      BY ONLY <3>3, <3>4
    <3>6. ASSUME NEW t \in Times, cell.window[t] # Nothing
          PROVE  t <= now
      <4>1. t <= cell.last_time /\ t \in Int
        BY <3>3, <3>4, <3>6
      <4> QED
        BY ONLY <3>3, <3>4, <4>1
    <3> QED
      BY <3>2, <3>4, <3>5, <3>6, Zenon
  <2>2. CASE key \notin DOMAIN s.surface
    <3>1. cell.window = EMPTY /\ cell.last_qualified = NoTime
      BY <2>2 DEF NewCell
    <3>2. NoTime <= now
      BY DEF Times, NoTime
    <3> HIDE DEF cell
    <3> QED
      BY <3>1, <3>2, EmptyWindow DEF Nothing
  <2> QED
    BY <2>1, <2>2
<1> HIDE DEF cell
<1>8. observed \in SurfaceCells /\ CellSound(observed, now)
  BY <1>2, <1>7, CellObserves
<1> HIDE DEF observed
<1>9. /\ DOMAIN cells = DOMAIN s.surface \cup {key}
      /\ \A k \in DOMAIN cells : cells[k] \in SurfaceCells /\ CellSound(cells[k], now)
  BY <1>5, <1>6, <1>8
<1>10. cells \in Surfaces
  <2>1. DOMAIN s.surface \cup {key} \in SUBSET Keys
    BY <1>2, <1>6
  <2>2. cells = [k \in DOMAIN s.surface \cup {key} |-> cells[k]]
    OBVIOUS
  <2> HIDE DEF cells
  <2> QED
    BY <1>9, <2>1, <2>2, SurfaceOf
<1> HIDE DEF cells
<1>11. updated \in States
  BY <1>4 DEF Sound
<1>12. /\ d \in States /\ d.surface = cells /\ d.active = active_after /\ d.last_time = now
       /\ d.quarantined = s.quarantined /\ d.run = updated.run
  BY <1>1, <1>4, <1>10, <1>11 DEF States
<1>13. Kept(d, s)
  <2>1. Kept(d, updated)
    BY <1>1, <1>11 DEF States, Kept
  <2> QED
    BY <1>3, <1>4, <2>1 DEF Kept
<1>14. \A since : RunFrom(updated, since) => RunFrom(d, since)
  BY <1>12 DEF RunFrom
<1>15. s.last_time \in Int /\ now \in Int
  BY FieldsOf, Constants
<1>16. \A since \in Int : RunFrom(s, since) /\ since <= s.last_time => RunFrom(d, since)
  BY <1>2, <1>3, <1>4, <1>14, <1>15
<1>17. Sound(d)
  BY <1>9, <1>12 DEF Sound
<1> QED
  BY <1>4, <1>9, <1>12, <1>13, <1>14, <1>16, <1>17 DEF Observes

\* A full replacement leaves the run empty.
LEMMA ObservesReplacement ==
  ASSUME NEW s, Sound(s), NEW now \in Times, NEW delta \in Nat, NEW seconds \in Nat,
         NEW key, NEW active_after \in 0 .. NativeMaxRunning,
         ObserveReplacementAccepts(s, now, delta, seconds, key, active_after),
         NEW d, d = ObserveReplacementInPlace(s, now, delta, seconds, key, active_after)
  PROVE  /\ Observes(d, s, now, active_after) /\ \A since : RunFrom(d, since)
         /\ d.quarantined = s.quarantined
         /\ seconds > 0 => DOMAIN d.surface = DOMAIN s.surface \cup {key}
         /\ ~(seconds > 0) => DOMAIN d.surface = DOMAIN s.surface
<1> DEFINE taken == IF seconds > 0
                      THEN ObserveBatchInPlace(s, now, delta, seconds, key, active_after)
                      ELSE ObserveInPlace(s, now, 0, active_after)
<1>1. d = ClearRun(taken)
  BY DEF ObserveReplacementInPlace
<1>2. /\ Observes(taken, s, now, active_after) /\ taken.quarantined = s.quarantined
      /\ seconds > 0 => DOMAIN taken.surface = DOMAIN s.surface \cup {key}
      /\ ~(seconds > 0) => DOMAIN taken.surface = DOMAIN s.surface
  <2>1. CASE seconds > 0
    <3>1. ObserveBatchAccepts(s, now, delta, seconds, key, active_after)
      BY DEF ObserveReplacementAccepts, ObserveBatchAccepts
    <3> QED
      BY <2>1, <3>1, ObservesBatch
  <2>2. CASE ~(seconds > 0)
    <3>1. Accepts(s, now) /\ 0 \in Nat
      BY DEF ObserveReplacementAccepts
    <3> QED
      BY <2>2, <3>1, ObservesInPlace
  <2> QED
    BY <2>1, <2>2
<1> HIDE DEF taken
<1>3. /\ Sound(d) /\ Kept(d, taken) /\ d.last_time = taken.last_time
      /\ d.active = taken.active /\ d.quarantined = taken.quarantined
      /\ d.surface = taken.surface /\ \A since : RunFrom(d, since)
  BY <1>1, <1>2, Clears DEF Observes
<1>4. Kept(d, s)
  BY <1>2, <1>3 DEF Observes, Kept
<1> QED
  BY <1>2, <1>3, <1>4 DEF Observes

\* So does the change of the quarantine, which drops the active run.
LEMMA ObservesQuarantine ==
  ASSUME NEW s, Sound(s), NEW now \in Times, Accepts(s, now),
         NEW active_after \in 0 .. NativeMaxRunning, NEW enabled \in BOOLEAN,
         NEW d, d = QuarantineInPlace(s, now, active_after, enabled)
  PROVE  /\ Observes(d, s, now, active_after) /\ \A since : RunFrom(d, since)
         /\ d.quarantined = enabled /\ DOMAIN d.surface = DOMAIN s.surface
<1> DEFINE ahead == AdvanceClock(s, now, FALSE)
           held == [ahead EXCEPT !.active = active_after, !.quarantined = enabled]
<1>1. d = ClearRun(held)
  BY DEF QuarantineInPlace
<1>2. Sound(ahead) /\ Kept(ahead, s) /\ ahead.last_time = now /\ DOMAIN ahead.surface = DOMAIN s.surface
  <2>1. PICK counting : counting = FALSE
    OBVIOUS
  <2>2. ahead = AdvanceClock(s, now, counting)
    BY <2>1
  <2> HIDE DEF ahead
  <2> QED
    BY <2>2, Advances
<1> HIDE DEF ahead
<1>3. ahead \in States
  BY <1>2 DEF Sound
<1>4. /\ held \in States /\ held.last_time = now /\ held.surface = ahead.surface
      /\ held.active = active_after /\ held.quarantined = enabled
  BY <1>2, <1>3 DEF States
<1>5. Kept(held, ahead)
  BY <1>3 DEF States, Kept
<1> HIDE DEF held
<1>6. Sound(held)
  BY <1>2, <1>4 DEF Sound
<1>7. /\ Sound(d) /\ Kept(d, held) /\ d.last_time = held.last_time
      /\ d.active = held.active /\ d.quarantined = held.quarantined
      /\ d.surface = held.surface /\ \A since : RunFrom(d, since)
  BY <1>1, <1>6, Clears
<1>8. Kept(d, s)
  BY <1>2, <1>5, <1>7 DEF Kept
<1> QED
  BY <1>2, <1>4, <1>7, <1>8 DEF Observes

\* A state without evidence.
LEMMA Fresh ==
  ASSUME NEW reference \in Nat
  PROVE  /\ New(reference) \in States /\ New(reference).surface = NoCells
         /\ DOMAIN NoCells = {} /\ New(reference).run = EMPTY
<1>1. NoCells \in Surfaces /\ NoCells \in Priors /\ DOMAIN NoCells = {}
  <2>1. NoCells \in [{} -> SurfaceCells] /\ NoCells \in [{} -> Rates] /\ {} \in SUBSET Keys
    BY DEF NoCells
  <2> QED
    BY <2>1 DEF Surfaces, Priors
<1>2. 0 \in 0 .. NativeMaxRunning
  BY Constants
<1> QED
  BY <1>1, <1>2, EmptyWindow DEF New, States

\* A new epoch starts sound and empty.
LEMMA StartsEpoch ==
  ASSUME NEW s, Sound(s), NEW now \in Times, NEW active_after \in 0 .. NativeMaxRunning,
         NEW d, d = SurfaceEpoch(s, now, active_after)
  PROVE  /\ Sound(d) /\ \A since : RunFrom(d, since)
         /\ d.epoch = s.epoch + 1 /\ d.revision = s.revision /\ d.reference = s.reference
         /\ d.active = active_after /\ d.last_time = now
         /\ d.quarantined = New(s.reference).quarantined
         /\ d.deadline = 0 /\ DOMAIN d.surface = {} /\ DOMAIN d.prior = {}
<1>1. s \in States /\ s.reference \in Nat /\ s.epoch \in Nat /\ s.revision \in Nat \ {0}
  BY DEF Sound, States
<1>2. /\ New(s.reference) \in States /\ New(s.reference).surface = NoCells
      /\ DOMAIN NoCells = {} /\ New(s.reference).run = EMPTY
  BY <1>1, Fresh
<1>3. d = [New(s.reference)
             EXCEPT !.epoch = s.epoch + 1, !.revision = s.revision, !.last_time = now,
                    !.active = active_after]
  BY DEF SurfaceEpoch
<1>4. /\ New(s.reference).reference = s.reference
      /\ New(s.reference).deadline = 0 /\ New(s.reference).prior = NoCells
  BY DEF New
<1>5. ASSUME NEW n \in States,
             d = [n EXCEPT !.epoch = s.epoch + 1, !.revision = s.revision, !.last_time = now,
                           !.active = active_after]
      PROVE  /\ d \in States /\ d.epoch = s.epoch + 1 /\ d.revision = s.revision
             /\ d.last_time = now /\ d.active = active_after /\ d.reference = n.reference
             /\ d.quarantined = n.quarantined /\ d.deadline = n.deadline
             /\ d.surface = n.surface /\ d.prior = n.prior /\ d.run = n.run
  <2>1. s.epoch + 1 \in Nat /\ s.revision \in Nat \ {0} /\ now \in Times \cup {NoTime}
    BY <1>1
  <2>2. ASSUME NEW e \in Nat, NEW v \in Nat \ {0}, NEW at \in Times \cup {NoTime},
               d = [n EXCEPT !.epoch = e, !.revision = v, !.last_time = at, !.active = active_after]
        PROVE  /\ d \in States /\ d.epoch = e /\ d.revision = v /\ d.last_time = at
               /\ d.active = active_after /\ d.reference = n.reference
               /\ d.quarantined = n.quarantined /\ d.deadline = n.deadline
               /\ d.surface = n.surface /\ d.prior = n.prior /\ d.run = n.run
    BY <2>2 DEF States
  <2> QED
    BY <1>5, <2>1, <2>2
<1>6. /\ d \in States /\ d.epoch = s.epoch + 1 /\ d.revision = s.revision
      /\ d.last_time = now /\ d.active = active_after /\ d.reference = s.reference
      /\ d.quarantined = New(s.reference).quarantined /\ d.deadline = 0
      /\ d.surface = NoCells /\ d.prior = NoCells /\ d.run = EMPTY
  <2> DEFINE n == New(s.reference)
  <2> HIDE DEF n
  <2>1. /\ n \in States
        /\ d = [n EXCEPT !.epoch = s.epoch + 1, !.revision = s.revision, !.last_time = now,
                         !.active = active_after]
    BY <1>2, <1>3 DEF n
  <2>2. /\ n.reference = s.reference /\ n.deadline = 0
        /\ n.quarantined = New(s.reference).quarantined
        /\ n.surface = NoCells /\ n.prior = NoCells /\ n.run = EMPTY
    BY <1>2, <1>4 DEF n
  <2> QED
    BY <1>5, <2>1, <2>2
<1>7. Sound(d)
  BY <1>2, <1>6 DEF Sound
<1> QED
  BY <1>2, <1>6, <1>7, EmptyWindow DEF RunFrom

\* The core starts sound.
LEMMA StartsSound == Init => SurfaceInv
<1> SUFFICES ASSUME Init PROVE SurfaceInv
  OBVIOUS
<1>1. InitialReference \in Nat /\ 0 \in Times /\ TTL \in Nat
  BY SurfaceAssumption, Constants DEF SurfaceAssumption, Times
<1>2. /\ New(InitialReference) \in States /\ New(InitialReference).surface = NoCells
      /\ DOMAIN NoCells = {} /\ New(InitialReference).active = 0
      /\ New(InitialReference).last_time = NoTime
  BY <1>1, Fresh DEF New
<1>3. CASE state = New(InitialReference)
  <2>1. Sound(state)
    BY <1>2, <1>3 DEF Sound
  <2> QED
    BY <1>2, <1>3, <2>1 DEF Init, SurfaceInv, NoTime
<1>4. ASSUME NEW cells \in Profiles, \A key \in DOMAIN cells : Validates(key, cells[key]),
             state = NewWithProfile(InitialReference, 0, cells)
      PROVE  SurfaceInv
  <2> DEFINE prior == [key \in DOMAIN cells |-> cells[key].lower]
  <2>1. state = [New(InitialReference) EXCEPT !.prior = prior, !.last_time = 0, !.deadline = 0 + TTL]
    BY <1>4 DEF NewWithProfile
  <2>2. DOMAIN cells \in SUBSET Keys
    BY <1>4 DEF Validates
  <2>3. \A key \in DOMAIN cells : cells[key].lower \in Rates
    BY <1>4, ProfilesAssumption DEF ProfilesAssumption
  <2>4. prior \in Priors
    BY <2>2, <2>3 DEF Priors
  <2> HIDE DEF prior
  <2>5. 0 + TTL \in Nat
    BY <1>1
  <2>6. /\ state \in States /\ state.surface = NoCells /\ state.active = 0
        /\ state.last_time = 0
    BY <1>1, <1>2, <2>1, <2>4, <2>5 DEF States
  <2>7. Sound(state)
    BY <1>2, <2>6 DEF Sound
  <2> QED
    BY <2>6, <2>7 DEF Init, SurfaceInv, NoTime
<1> QED
  BY <1>3, <1>4 DEF Init
-----------------------------------------------------------------------------
(* Every step keeps the invariant.                                         *)

\* The scheduler never observes ahead of the core's clock.
LEMMA SecondsCount ==
  ASSUME SurfaceInv, NEW now \in Times, Accepts(state, now)
  PROVE  SequenceSeconds(now) \in Nat
<1>1. /\ state.active \in Nat /\ state.last_time \in Int /\ state.last_time <= now
      /\ surface_time \in Times \cup {NoTime} /\ surface_time <= state.last_time /\ now \in Nat
  BY FieldsOf, Constants DEF SurfaceInv, Accepts
<1>2. CASE surface_time = NoTime
  BY <1>2 DEF SequenceSeconds
<1>3. CASE surface_time # NoTime
  <2>1. now - surface_time \in Nat
    BY <1>1, <1>3, Constants
  <2> QED
    BY <1>1, <1>3, <2>1, Products DEF SequenceSeconds
<1> QED
  BY <1>2, <1>3

\* An observation by the scheduler.
LEMMA ObservedKeeps ==
  ASSUME SurfaceInv, NEW now \in Times, Accepts(state, now),
         NEW active_after, Observes(state', state, now, active_after),
         surface_time' = now,
         \/ run_since' = now /\ RunFrom(state', now)
         \/ run_since' = run_since /\ ~(state.active = 0 /\ state'.active > 0)
  PROVE  SurfaceInv'
<1>1. /\ state.active \in Nat /\ state.last_time \in Int /\ state.last_time <= now
      /\ now \in Nat /\ now <= now
  BY FieldsOf, Constants DEF SurfaceInv, Accepts
<1>2. /\ Sound(state') /\ state'.last_time = now /\ state'.active \in Nat
      /\ \A since \in Int : RunFrom(state, since) /\ since <= state.last_time
                              => RunFrom(state', since)
  BY FieldsOf DEF Observes
<1>3. state'.active > 0 =>
        run_since' \in Times /\ run_since' <= state'.last_time /\ RunFrom(state', run_since')
  <2> SUFFICES ASSUME state'.active > 0
               PROVE  run_since' \in Times /\ run_since' <= now /\ RunFrom(state', run_since')
    BY <1>2
  <2>1. CASE run_since' = now /\ RunFrom(state', now)
    BY <1>1, <2>1
  <2>2. CASE run_since' = run_since /\ state.active > 0
    <3>1. run_since \in Times /\ run_since <= state.last_time /\ RunFrom(state, run_since)
      BY <2>2 DEF SurfaceInv
    <3>2. run_since \in Int
      BY <3>1, Constants
    <3>3. run_since <= now
      BY <1>1, <3>1, <3>2
    <3> QED
      BY <1>2, <2>2, <3>1, <3>2, <3>3
  <2> QED
    BY <1>1, <2>1, <2>2
<1>4. surface_time' \in Times \cup {NoTime} /\ surface_time' <= state'.last_time
  BY <1>1, <1>2
<1> QED
  BY <1>2, <1>3, <1>4 DEF SurfaceInv

CoreWith(e, v, r, a, q, t, l, c) ==
  [ epoch |-> e, revision |-> v, reference |-> r, active |-> a,
    quarantined |-> q, last_time |-> t, deadline |-> l, cells |-> c ]

\* A record is known by its fields.
LEMMA CoreFields ==
  ASSUME NEW e, NEW v, NEW r, NEW a, NEW q, NEW t, NEW l, NEW c, NEW core,
         core = CoreWith(core.epoch, core.revision, core.reference, core.active,
                         core.quarantined, core.last_time, core.deadline, core.cells),
         core.epoch = e, core.revision = v, core.reference = r, core.active = a,
         core.quarantined = q, core.last_time = t, core.deadline = l, core.cells = c
  PROVE  core = CoreWith(e, v, r, a, q, t, l, c)
OBVIOUS

\* The abstract core of a state, field by field.
LEMMA CoreForm ==
  ASSUME NEW s
  PROVE  CoreOf(s) = CoreWith(s.epoch, s.revision, s.reference, s.active, s.quarantined,
                              s.last_time, s.deadline, DOMAIN s.surface)
BY DEF CoreOf, CoreWith

\* What the calls of GovernorCore make of a core.
LEMMA CoreImage ==
  ASSUME NEW s
  PROVE  /\ \A now :
              Abstract!AdvanceCore(CoreOf(s), now) =
                CoreWith(s.epoch, s.revision, s.reference, s.active, s.quarantined,
                       now, s.deadline, DOMAIN s.surface)
         /\ \A now, n :
              Abstract!ObserveCore(CoreOf(s), now, n) =
                CoreWith(s.epoch, s.revision, s.reference, n, s.quarantined,
                       now, s.deadline, DOMAIN s.surface)
         /\ \A now, n :
              Abstract!RotateCore(CoreOf(s), now, n) =
                CoreWith(s.epoch + 1, s.revision, s.reference, n, FALSE,
                       now, 0, {})
         /\ \A n :
              Abstract!UpdateReferenceCore(CoreOf(s), n) =
                CoreWith(s.epoch, s.revision + 1, n, s.active, s.quarantined,
                       s.last_time, s.deadline, DOMAIN s.surface)
<1>1. PICK e, v, r, a, q, t, l, c :
        /\ e = s.epoch /\ v = s.revision /\ r = s.reference /\ a = s.active
        /\ q = s.quarantined /\ t = s.last_time /\ l = s.deadline /\ c = DOMAIN s.surface
  OBVIOUS
<1>2. CoreOf(s) = CoreWith(e, v, r, a, q, t, l, c)
  BY <1>1, CoreForm
<1>3. ASSUME NEW now
      PROVE  Abstract!AdvanceCore(CoreOf(s), now) =
                CoreWith(s.epoch, s.revision, s.reference, s.active, s.quarantined,
                         now, s.deadline, DOMAIN s.surface)
  <2>1. PICK d : d = Abstract!AdvanceCore(CoreOf(s), now)
    OBVIOUS
  <2>2. /\ d.epoch = e /\ d.revision = v /\ d.reference = r /\ d.active = a
        /\ d.quarantined = q /\ d.last_time = now /\ d.deadline = l /\ d.cells = c
    BY <1>2, <2>1 DEF Abstract!AdvanceCore, CoreWith
  <2>3. d = CoreWith(d.epoch, d.revision, d.reference, d.active, d.quarantined, d.last_time,
                     d.deadline, d.cells)
    BY <1>2, <2>1 DEF Abstract!AdvanceCore, CoreWith
  <2>4. d = CoreWith(e, v, r, a, q, now, l, c)
    BY <2>2, <2>3, CoreFields
  <2> QED
    BY <1>1, <2>1, <2>4
<1>4. ASSUME NEW now, NEW n
      PROVE  Abstract!ObserveCore(CoreOf(s), now, n) =
                CoreWith(s.epoch, s.revision, s.reference, n, s.quarantined,
                         now, s.deadline, DOMAIN s.surface)
  <2>1. PICK d : d = Abstract!ObserveCore(CoreOf(s), now, n)
    OBVIOUS
  <2>2. /\ d.epoch = e /\ d.revision = v /\ d.reference = r /\ d.active = n
        /\ d.quarantined = q /\ d.last_time = now /\ d.deadline = l /\ d.cells = c
    BY <1>1, <1>3, <2>1 DEF Abstract!ObserveCore, CoreWith
  <2>3. d = CoreWith(d.epoch, d.revision, d.reference, d.active, d.quarantined, d.last_time,
                     d.deadline, d.cells)
    BY <1>1, <1>3, <2>1 DEF Abstract!ObserveCore, CoreWith
  <2>4. d = CoreWith(e, v, r, n, q, now, l, c)
    BY <2>2, <2>3, CoreFields
  <2> QED
    BY <1>1, <2>1, <2>4
<1>5. ASSUME NEW now, NEW n
      PROVE  Abstract!RotateCore(CoreOf(s), now, n) =
                CoreWith(s.epoch + 1, s.revision, s.reference, n, FALSE,
                         now, 0, {})
  <2>1. PICK d : d = Abstract!RotateCore(CoreOf(s), now, n)
    OBVIOUS
  <2>2. /\ d.epoch = e + 1 /\ d.revision = v /\ d.reference = r /\ d.active = n
        /\ d.quarantined = FALSE /\ d.last_time = now /\ d.deadline = 0 /\ d.cells = {}
    BY <1>2, <2>1 DEF Abstract!RotateCore, CoreWith
  <2>3. d = CoreWith(d.epoch, d.revision, d.reference, d.active, d.quarantined, d.last_time,
                     d.deadline, d.cells)
    BY <1>2, <2>1 DEF Abstract!RotateCore, CoreWith
  <2>4. d = CoreWith(e + 1, v, r, n, FALSE, now, 0, {})
    BY <2>2, <2>3, CoreFields
  <2> QED
    BY <1>1, <2>1, <2>4
<1>6. ASSUME NEW n
      PROVE  Abstract!UpdateReferenceCore(CoreOf(s), n) =
                CoreWith(s.epoch, s.revision + 1, n, s.active, s.quarantined,
                         s.last_time, s.deadline, DOMAIN s.surface)
  <2>1. PICK d : d = Abstract!UpdateReferenceCore(CoreOf(s), n)
    OBVIOUS
  <2>2. /\ d.epoch = e /\ d.revision = v + 1 /\ d.reference = n /\ d.active = a
        /\ d.quarantined = q /\ d.last_time = t /\ d.deadline = l /\ d.cells = c
    BY <1>2, <2>1 DEF Abstract!UpdateReferenceCore, CoreWith
  <2>3. d = CoreWith(d.epoch, d.revision, d.reference, d.active, d.quarantined, d.last_time,
                     d.deadline, d.cells)
    BY <1>2, <2>1 DEF Abstract!UpdateReferenceCore, CoreWith
  <2>4. d = CoreWith(e, v + 1, n, a, q, t, l, c)
    BY <2>2, <2>3, CoreFields
  <2> QED
    BY <1>1, <2>1, <2>4
<1> QED
  BY <1>3, <1>4, <1>5, <1>6

\* What the steps of the core do, each with what it is in GovernorCore.
SurfaceStep ==
  /\ SurfaceInv'
  /\ CoreStep(CoreOf(state), CoreOf(state'), state'.last_time,
              SequenceSeconds(state'.last_time))

\* A read, of a decision or of a snapshot.
LEMMA ReadSteps ==
  ASSUME SurfaceInv, NEW now \in Times, Read(now)
  PROVE  SurfaceStep
<1>1. Accepts(state, now) /\ state' = AdvanceClock(state, now, ~state.quarantined)
  BY DEF Read, Advance
<1>2. Sound(state) /\ state.last_time \in Int /\ state.last_time <= now /\ now \in Int
  BY <1>1, FieldsOf, Constants DEF SurfaceInv, Accepts
<1>3. /\ Sound(state') /\ Kept(state', state) /\ state'.last_time = now
      /\ state'.active = state.active /\ state'.quarantined = state.quarantined
      /\ DOMAIN state'.surface = DOMAIN state.surface
      /\ \A since \in Int : RunFrom(state, since) /\ since <= state.last_time
                              => RunFrom(state', since)
  BY <1>1, <1>2, Advances
<1>4. surface_time' = surface_time /\ run_since' = run_since
  BY DEF Read
<1>5. surface_time' \in Times \cup {NoTime} /\ surface_time' <= state'.last_time
  BY <1>2, <1>3, <1>4 DEF SurfaceInv, Times, NoTime
<1>6. state'.active > 0 =>
        run_since' \in Times /\ run_since' <= state'.last_time /\ RunFrom(state', run_since')
  <2> SUFFICES ASSUME state.active > 0
               PROVE  run_since \in Times /\ run_since <= now /\ RunFrom(state', run_since)
    BY <1>3, <1>4
  <2>1. run_since \in Times /\ run_since <= state.last_time /\ RunFrom(state, run_since)
    BY DEF SurfaceInv
  <2>2. run_since \in Int
    BY <2>1, Constants
  <2> QED
    BY <1>2, <1>3, <2>1, <2>2
<1>7. SurfaceInv'
  BY <1>3, <1>5, <1>6 DEF SurfaceInv
<1>8. CoreOf(state') = Abstract!AdvanceCore(CoreOf(state), now)
  BY <1>3, CoreForm, CoreImage DEF Kept
<1>9. Abstract!ClockAccepts(CoreOf(state), now)
  BY <1>1 DEF Abstract!ClockAccepts, CoreOf, Accepts
<1> QED
  BY <1>3, <1>7, <1>8, <1>9 DEF SurfaceStep, CoreStep

\* The calls with more arguments.
LEMMA BatchImage ==
  ASSUME NEW s, NEW now, NEW key, NEW n
  PROVE  Abstract!ObserveBatchCore(CoreOf(s), now, key, n) =
           CoreWith(s.epoch, s.revision, s.reference, n, s.quarantined,
                    now, s.deadline, DOMAIN s.surface \cup {key})
<1>1. PICK e, v, r, a, q, t, l, c :
        /\ e = s.epoch /\ v = s.revision /\ r = s.reference /\ a = s.active
        /\ q = s.quarantined /\ t = s.last_time /\ l = s.deadline /\ c = DOMAIN s.surface
  OBVIOUS
<1>2. CoreOf(s) = CoreWith(e, v, r, a, q, t, l, c)
  BY <1>1, CoreForm
<1>3. PICK d : d = Abstract!ObserveBatchCore(CoreOf(s), now, key, n)
  OBVIOUS
<1>4. d = [Abstract!ObserveCore(CoreOf(s), now, n) EXCEPT !.cells = @ \cup {key}]
  BY <1>3 DEF Abstract!ObserveBatchCore
<1>5. Abstract!ObserveCore(CoreOf(s), now, n) = CoreWith(e, v, r, n, q, now, l, c)
  BY <1>1, CoreImage
<1>6. /\ d.epoch = e /\ d.revision = v /\ d.reference = r /\ d.active = n
      /\ d.quarantined = q /\ d.last_time = now /\ d.deadline = l /\ d.cells = c \cup {key}
  BY <1>4, <1>5 DEF CoreWith
<1>7. d = CoreWith(d.epoch, d.revision, d.reference, d.active, d.quarantined, d.last_time,
                   d.deadline, d.cells)
  BY <1>4, <1>5 DEF CoreWith
<1>8. d = CoreWith(e, v, r, n, q, now, l, c \cup {key})
  BY <1>6, <1>7, CoreFields
<1> QED
  BY <1>1, <1>3, <1>8

\* The abstract change of the quarantine, field by field.
LEMMA QuarantineImage ==
  ASSUME NEW s, NEW now, NEW n, NEW enabled
  PROVE  Abstract!QuarantineCore(CoreOf(s), now, n, enabled) =
           CoreWith(s.epoch, s.revision, s.reference, n, enabled,
                    now, s.deadline, DOMAIN s.surface)
<1>1. PICK e, v, r, a, q, t, l, c :
        /\ e = s.epoch /\ v = s.revision /\ r = s.reference /\ a = s.active
        /\ q = s.quarantined /\ t = s.last_time /\ l = s.deadline /\ c = DOMAIN s.surface
  OBVIOUS
<1>2. CoreOf(s) = CoreWith(e, v, r, a, q, t, l, c)
  BY <1>1, CoreForm
<1>3. PICK d : d = Abstract!QuarantineCore(CoreOf(s), now, n, enabled)
  OBVIOUS
<1>4. d = [CoreOf(s) EXCEPT !.last_time = now, !.active = n, !.quarantined = enabled]
  BY <1>3 DEF Abstract!QuarantineCore
<1>5. /\ d.epoch = e /\ d.revision = v /\ d.reference = r /\ d.active = n
      /\ d.quarantined = enabled /\ d.last_time = now /\ d.deadline = l /\ d.cells = c
  BY <1>2, <1>4 DEF CoreWith
<1>6. d = CoreWith(d.epoch, d.revision, d.reference, d.active, d.quarantined, d.last_time,
                   d.deadline, d.cells)
  BY <1>2, <1>4 DEF CoreWith
<1>7. d = CoreWith(e, v, r, n, enabled, now, l, c)
  BY <1>5, <1>6, CoreFields
<1> QED
  BY <1>1, <1>3, <1>7

\* What GovernorCore keeps of a core that has been observed.
LEMMA ObservedCore ==
  ASSUME NEW s, NEW now, NEW active_after, NEW d, Observes(d, s, now, active_after)
  PROVE  CoreOf(d) = CoreWith(s.epoch, s.revision, s.reference, active_after, d.quarantined,
                              now, s.deadline, DOMAIN d.surface)
BY CoreForm DEF Observes, Kept

\* The scheduler observes its batch at a time.
LEMMA ObserveSteps ==
  ASSUME SurfaceInv, NEW now \in Times, NEW active_after \in 0 .. NativeMaxRunning,
         Observe(now, active_after)
  PROVE  SurfaceStep
<1>1. /\ Accepts(state, now) /\ state' = ObserveInPlace(state, now, 0, active_after)
      /\ Sound(state) /\ 0 \in Nat
  BY DEF Observe, SurfaceInv
<1>2. /\ Observes(state', state, now, active_after)
      /\ state'.quarantined = state.quarantined /\ DOMAIN state'.surface = DOMAIN state.surface
  BY <1>1, ObservesInPlace
<1>3. SurfaceInv'
  <2>1. state.active = 0 /\ state'.active > 0 => RunFrom(state', now)
    BY <1>2 DEF Observes
  <2> QED
    BY <1>1, <1>2, <2>1, ObservedKeeps DEF Observe, Observed
<1>4. CoreOf(state') = Abstract!ObserveCore(CoreOf(state), now, active_after)
  <2>1. CoreOf(state') =
          CoreWith(state.epoch, state.revision, state.reference, active_after, state.quarantined,
                   now, state.deadline, DOMAIN state.surface)
    BY <1>2, ObservedCore
  <2>2. Abstract!ObserveCore(CoreOf(state), now, active_after) =
          CoreWith(state.epoch, state.revision, state.reference, active_after, state.quarantined,
                   now, state.deadline, DOMAIN state.surface)
    BY CoreImage, Zenon
  <2> QED
    BY <2>1, <2>2
<1>5. Abstract!ObserveAccepts(CoreOf(state), now, active_after)
  BY <1>1, Constants DEF Abstract!ObserveAccepts, Abstract!ClockAccepts, CoreOf, Accepts
<1>6. state'.last_time = now
  BY <1>2 DEF Observes
<1> QED
  BY <1>3, <1>4, <1>5, <1>6 DEF SurfaceStep, CoreStep

\* A batch is recorded in a cell.
LEMMA ObserveBatchSteps ==
  ASSUME SurfaceInv, NEW now \in Times, NEW active_after \in 0 .. NativeMaxRunning,
         NEW delta \in Deltas, NEW class \in LoadedClasses,
         ObserveBatch(now, delta, <<state.active, class>>, active_after)
  PROVE  SurfaceStep
<1> DEFINE key == <<state.active, class>>
           seconds == SequenceSeconds(now)
<1>1. /\ seconds > 0 /\ Sound(state) /\ delta \in Nat
      /\ ObserveBatchAccepts(state, now, delta, seconds, key, active_after)
      /\ state' = ObserveBatchInPlace(state, now, delta, seconds, key, active_after)
      /\ Observed(now, FALSE)
  BY SurfaceAssumption DEF ObserveBatch, SurfaceInv, SurfaceAssumption
<1>2. Accepts(state, now) /\ seconds \in Nat
  BY <1>1, SecondsCount DEF ObserveBatchAccepts
<1> HIDE DEF seconds, key
<1>3. /\ Observes(state', state, now, active_after)
      /\ state'.quarantined = state.quarantined
      /\ DOMAIN state'.surface = DOMAIN state.surface \cup {key}
  BY <1>1, <1>2, ObservesBatch
<1>4. SurfaceInv'
  <2>1. state.active = 0 /\ state'.active > 0 => RunFrom(state', now)
    BY <1>3 DEF Observes
  <2> QED
    BY <1>1, <1>2, <1>3, <2>1, ObservedKeeps DEF Observed
<1>5. CoreOf(state') = Abstract!ObserveBatchCore(CoreOf(state), now, key, active_after)
  <2>1. CoreOf(state') =
          CoreWith(state.epoch, state.revision, state.reference, active_after, state.quarantined,
                   now, state.deadline, DOMAIN state.surface \cup {key})
    BY <1>3, ObservedCore
  <2>2. Abstract!ObserveBatchCore(CoreOf(state), now, key, active_after) =
          CoreWith(state.epoch, state.revision, state.reference, active_after, state.quarantined,
                   now, state.deadline, DOMAIN state.surface \cup {key})
    BY BatchImage
  <2> QED
    BY <2>1, <2>2
<1>6. Abstract!ObserveBatchAccepts(CoreOf(state), now, delta, seconds, key, active_after)
  BY <1>1 DEF Abstract!ObserveBatchAccepts, Abstract!ObserveAccepts, Abstract!ClockAccepts,
              CoreOf, Accepts, ObserveBatchAccepts, Keys
<1>7. state'.last_time = now /\ CoreOf(state).active = state.active
  BY <1>3 DEF Observes, CoreOf
<1> QED
  BY <1>1, <1>4, <1>5, <1>6, <1>7 DEF SurfaceStep, CoreStep, key, seconds

\* A batch with a replaced request is recorded in a cell.
LEMMA ObserveReplacementSteps ==
  ASSUME SurfaceInv, NEW now \in Times, NEW active_after \in 0 .. NativeMaxRunning,
         NEW delta \in Deltas, NEW class \in LoadedClasses,
         ObserveReplacement(now, delta, <<state.active, class>>, active_after)
  PROVE  SurfaceStep
<1> DEFINE key == <<state.active, class>>
           seconds == SequenceSeconds(now)
<1>1. /\ Sound(state) /\ delta \in Nat
      /\ ObserveReplacementAccepts(state, now, delta, seconds, key, active_after)
      /\ state' = ObserveReplacementInPlace(state, now, delta, seconds, key, active_after)
      /\ Observed(now, TRUE)
  BY SurfaceAssumption DEF ObserveReplacement, SurfaceInv, SurfaceAssumption
<1>2. Accepts(state, now) /\ seconds \in Nat
  BY <1>1, SecondsCount DEF ObserveReplacementAccepts
<1> HIDE DEF seconds, key
<1>3. /\ Observes(state', state, now, active_after) /\ RunFrom(state', now)
      /\ state'.quarantined = state.quarantined
      /\ seconds > 0 => DOMAIN state'.surface = DOMAIN state.surface \cup {key}
      /\ ~(seconds > 0) => DOMAIN state'.surface = DOMAIN state.surface
  <2>1. PICK d : d = state'
    OBVIOUS
  <2>2. /\ Observes(d, state, now, active_after) /\ \A since : RunFrom(d, since)
        /\ d.quarantined = state.quarantined
        /\ seconds > 0 => DOMAIN d.surface = DOMAIN state.surface \cup {key}
        /\ ~(seconds > 0) => DOMAIN d.surface = DOMAIN state.surface
    BY <1>1, <1>2, <2>1, ObservesReplacement
  <2> QED
    BY <2>1, <2>2
<1>4. SurfaceInv'
  BY <1>1, <1>2, <1>3, ObservedKeeps DEF Observed
<1>5. CoreOf(state') =
        Abstract!ObserveReplacementCore(CoreOf(state), now, seconds, key, active_after)
  <2>1. CASE seconds > 0
    <3>1. CoreOf(state') =
            CoreWith(state.epoch, state.revision, state.reference, active_after, state.quarantined,
                     now, state.deadline, DOMAIN state.surface \cup {key})
      BY <1>3, <2>1, ObservedCore
    <3>2. Abstract!ObserveBatchCore(CoreOf(state), now, key, active_after) =
            CoreWith(state.epoch, state.revision, state.reference, active_after, state.quarantined,
                     now, state.deadline, DOMAIN state.surface \cup {key})
      BY BatchImage
    <3> QED
      BY <2>1, <3>1, <3>2 DEF Abstract!ObserveReplacementCore
  <2>2. CASE ~(seconds > 0)
    <3>1. CoreOf(state') =
            CoreWith(state.epoch, state.revision, state.reference, active_after, state.quarantined,
                     now, state.deadline, DOMAIN state.surface)
      BY <1>3, <2>2, ObservedCore
    <3>2. Abstract!ObserveCore(CoreOf(state), now, active_after) =
            CoreWith(state.epoch, state.revision, state.reference, active_after, state.quarantined,
                     now, state.deadline, DOMAIN state.surface)
      BY CoreImage, Zenon
    <3> QED
      BY <2>2, <3>1, <3>2 DEF Abstract!ObserveReplacementCore
  <2> QED
    BY <2>1, <2>2
<1>6. Abstract!ObserveReplacementAccepts(CoreOf(state), now, delta, seconds, key, active_after)
  BY <1>1, <1>2
  DEF Abstract!ObserveReplacementAccepts, Abstract!ObserveAccepts, Abstract!ClockAccepts,
      CoreOf, Accepts, ObserveReplacementAccepts, Keys
<1>7. state'.last_time = now /\ CoreOf(state).active = state.active
  BY <1>3 DEF Observes, CoreOf
<1> QED
  BY <1>4, <1>5, <1>6, <1>7 DEF SurfaceStep, CoreStep, key, seconds

\* The quarantine is set or lifted.
LEMMA QuarantineSteps ==
  ASSUME SurfaceInv, NEW now \in Times, NEW active_after \in 0 .. NativeMaxRunning,
         NEW enabled \in BOOLEAN, Quarantine(now, active_after, enabled)
  PROVE  SurfaceStep
<1>1. /\ Accepts(state, now) /\ Sound(state) /\ Observed(now, TRUE)
      /\ state' = QuarantineInPlace(state, now, active_after, enabled)
  BY DEF Quarantine, SurfaceInv
<1>2. /\ Observes(state', state, now, active_after) /\ RunFrom(state', now)
      /\ state'.quarantined = enabled /\ DOMAIN state'.surface = DOMAIN state.surface
  BY <1>1, ObservesQuarantine
<1>3. SurfaceInv'
  BY <1>1, <1>2, ObservedKeeps DEF Observed
<1>4. CoreOf(state') = Abstract!QuarantineCore(CoreOf(state), now, active_after, enabled)
  <2>1. CoreOf(state') =
          CoreWith(state.epoch, state.revision, state.reference, active_after, enabled,
                   now, state.deadline, DOMAIN state.surface)
    BY <1>2, ObservedCore
  <2>2. Abstract!QuarantineCore(CoreOf(state), now, active_after, enabled) =
          CoreWith(state.epoch, state.revision, state.reference, active_after, enabled,
                   now, state.deadline, DOMAIN state.surface)
    BY QuarantineImage
  <2> QED
    BY <2>1, <2>2
<1>5. Abstract!ObserveAccepts(CoreOf(state), now, active_after)
  BY <1>1, Constants DEF Abstract!ObserveAccepts, Abstract!ClockAccepts, CoreOf, Accepts
<1>6. state'.last_time = now
  BY <1>2 DEF Observes
<1> QED
  BY <1>3, <1>4, <1>5, <1>6 DEF SurfaceStep, CoreStep

\* The surface starts a new epoch.
LEMMA StartSurfaceEpochSteps ==
  ASSUME SurfaceInv, NEW now \in Times, StartSurfaceEpoch(now, 0)
  PROVE  SurfaceStep
<1>1. /\ Sound(state) /\ Observed(now, TRUE) /\ state' = SurfaceEpoch(state, now, 0)
  BY DEF StartSurfaceEpoch, SurfaceInv
<1>2. /\ Sound(state')
      /\ state'.epoch = state.epoch + 1 /\ state'.revision = state.revision
      /\ state'.reference = state.reference
      /\ state'.active = 0 /\ state'.quarantined = FALSE /\ state'.last_time = now
      /\ state'.deadline = 0 /\ DOMAIN state'.surface = {}
  <2>1. PICK n \in 0 .. NativeMaxRunning : n = 0
    BY Constants
  <2>2. PICK d : d = state'
    OBVIOUS
  <2>3. d = SurfaceEpoch(state, now, n)
    BY <1>1, <2>1, <2>2
  <2>4. /\ Sound(d)
        /\ d.epoch = state.epoch + 1 /\ d.revision = state.revision
        /\ d.reference = state.reference
        /\ d.active = n /\ d.last_time = now
        /\ d.quarantined = New(state.reference).quarantined
        /\ d.deadline = 0 /\ DOMAIN d.surface = {}
    BY <1>1, <2>3, StartsEpoch
  <2>5. New(state.reference).quarantined = FALSE
    BY DEF New
  <2> QED
    BY <2>1, <2>2, <2>4, <2>5
<1>3. SurfaceInv'
  BY <1>1, <1>2, Constants DEF SurfaceInv, Observed
<1>4. CoreOf(state') = Abstract!RotateCore(CoreOf(state), now, 0)
  <2>1. CoreOf(state') =
          CoreWith(state.epoch + 1, state.revision, state.reference, 0, FALSE, now, 0, {})
    BY <1>2, CoreForm
  <2>2. Abstract!RotateCore(CoreOf(state), now, 0) =
          CoreWith(state.epoch + 1, state.revision, state.reference, 0, FALSE, now, 0, {})
    BY CoreImage, Zenon
  <2> QED
    BY <2>1, <2>2
<1> QED
  BY <1>2, <1>3, <1>4 DEF SurfaceStep, CoreStep

\* The reference changes.
LEMMA UpdateReferenceSteps ==
  ASSUME SurfaceInv, NEW reference \in References, UpdateReference(reference)
  PROVE  SurfaceStep
<1>1. /\ state \in States /\ Sound(state) /\ reference \in Nat
      /\ state' = [state EXCEPT !.revision = @ + 1, !.reference = reference]
      /\ surface_time' = surface_time /\ run_since' = run_since
  BY SurfaceAssumption DEF UpdateReference, SurfaceInv, Sound, SurfaceAssumption
<1>2. /\ state' \in States /\ state'.revision = state.revision + 1
      /\ state'.reference = reference /\ state'.epoch = state.epoch
      /\ state'.active = state.active /\ state'.quarantined = state.quarantined
      /\ state'.last_time = state.last_time /\ state'.deadline = state.deadline
      /\ state'.surface = state.surface /\ state'.run = state.run
  <2>1. PICK v \in Nat \ {0} : v = state.revision + 1
    BY <1>1 DEF States
  <2>2. state' = [state EXCEPT !.revision = v, !.reference = reference]
    BY <1>1, <2>1
  <2>3. /\ state' \in States /\ state'.revision = v
        /\ state'.reference = reference /\ state'.epoch = state.epoch
        /\ state'.active = state.active /\ state'.quarantined = state.quarantined
        /\ state'.last_time = state.last_time /\ state'.deadline = state.deadline
        /\ state'.surface = state.surface /\ state'.run = state.run
    BY <1>1, <2>2 DEF States
  <2> QED
    BY <2>1, <2>3
<1>3. SurfaceInv'
  BY <1>1, <1>2 DEF SurfaceInv, Sound, RunFrom
<1>4. CoreOf(state') = Abstract!UpdateReferenceCore(CoreOf(state), reference)
  BY <1>2, CoreForm, CoreImage
<1> QED
  BY <1>3, <1>4 DEF SurfaceStep, CoreStep

\* Every call keeps the invariant and is a step of the abstract core.
LEMMA SurfaceSteps == SurfaceInv /\ Next => SurfaceStep
<1> SUFFICES ASSUME SurfaceInv, Next PROVE SurfaceStep
  OBVIOUS
<1>1. ASSUME NEW now \in Times, Read(now) PROVE SurfaceStep
  BY <1>1, ReadSteps
<1>2. ASSUME NEW now \in Times, StartSurfaceEpoch(now, 0) PROVE SurfaceStep
  BY <1>2, StartSurfaceEpochSteps
<1>3. ASSUME NEW now \in Times, NEW active_after \in 0 .. NativeMaxRunning,
             Observe(now, active_after)
      PROVE  SurfaceStep
  BY <1>3, ObserveSteps
<1>4. ASSUME NEW now \in Times, NEW active_after \in 0 .. NativeMaxRunning,
             NEW enabled \in BOOLEAN, Quarantine(now, active_after, enabled)
      PROVE  SurfaceStep
  BY <1>4, QuarantineSteps
<1>5. ASSUME NEW now \in Times, NEW active_after \in 0 .. NativeMaxRunning,
             NEW delta \in Deltas, NEW class \in LoadedClasses,
             ObserveBatch(now, delta, <<state.active, class>>, active_after)
      PROVE  SurfaceStep
  BY <1>5, ObserveBatchSteps
<1>6. ASSUME NEW now \in Times, NEW active_after \in 0 .. NativeMaxRunning,
             NEW delta \in Deltas, NEW class \in LoadedClasses,
             ObserveReplacement(now, delta, <<state.active, class>>, active_after)
      PROVE  SurfaceStep
  BY <1>6, ObserveReplacementSteps
<1>7. ASSUME NEW reference \in References, UpdateReference(reference) PROVE SurfaceStep
  BY <1>7, UpdateReferenceSteps
<1> QED
  BY <1>1, <1>2, <1>3, <1>4, <1>5, <1>6, <1>7 DEF Next

\* So does a step that changes nothing.
LEMMA SurfaceStutters ==
  ASSUME SurfaceInv, UNCHANGED vars
  PROVE  SurfaceInv'
BY DEF vars, SurfaceInv, Sound, RunFrom

\* The invariant holds of every reachable state.
LEMMA SurfaceInvariance == Spec => []SurfaceInv
<1>1. SurfaceInv /\ [Next]_vars => SurfaceInv'
  BY SurfaceSteps, SurfaceStutters DEF SurfaceStep
<1> QED
  BY StartsSound, <1>1, PTL DEF Spec

-----------------------------------------------------------------------------
(* Types, the active run, and the core that the scheduler assumes.         *)

\* Every cell is of the core's keys and no younger than the last call, and
\* keeps no evidence of a time at which it was not observed.
THEOREM SurfaceIsTyped == Spec => []TypeOK
<1>1. SurfaceInv => TypeOK
  <2> SUFFICES ASSUME SurfaceInv PROVE TypeOK
    OBVIOUS
  <2>1. /\ Sound(state) /\ state \in States /\ state.surface \in Surfaces
        /\ state.prior \in Priors /\ state.run \in Windows
        /\ \A key \in DOMAIN state.surface : CellSound(state.surface[key], state.last_time)
    BY FieldsOf DEF SurfaceInv
  <2>2. /\ DOMAIN state.surface \subseteq Keys
        /\ \A key \in DOMAIN state.surface : state.surface[key] \in SurfaceCells
    BY <2>1, SurfaceCellsOf
  <2>3. DOMAIN state.prior \subseteq Keys /\ \A key \in DOMAIN state.prior : state.prior[key] \in Rates
    BY <2>1 DEF Priors
  <2>4. /\ state.active \in 0 .. NativeMaxRunning
        /\ state.run_has_tokens \in BOOLEAN /\ state.quarantined \in BOOLEAN
    BY <2>1 DEF States
  <2> QED
    BY <2>1, <2>2, <2>3, <2>4 DEF TypeOK, CellSound
<1> QED
  BY SurfaceInvariance, <1>1, PTL

\* The window of the active run holds nothing from before that run began.
THEOREM RunStaysCurrent == Spec => []RunIsCurrent
<1>1. SurfaceInv => RunIsCurrent
  BY DEF SurfaceInv, RunFrom, RunIsCurrent
<1> QED
  BY SurfaceInvariance, <1>1, PTL

\* Every call on the evidence is a call of GovernorCore, with its guard.
THEOREM SurfaceImplementsCore == Spec => ImplementsCore
<1> DEFINE Step == CoreStep(CoreOf(state), CoreOf(state'), state'.last_time,
                            SequenceSeconds(state'.last_time))
<1>1. SurfaceInv /\ [Next]_vars => [Step]_vars
  BY SurfaceSteps DEF SurfaceStep
<1> HIDE DEF Step
<1>2. Spec => [][Step]_vars
  BY SurfaceInvariance, <1>1, PTL DEF Spec
<1> QED
  BY <1>2 DEF Step, ImplementsCore
-----------------------------------------------------------------------------
(* Evidence.                                                               *)

Lookback(now, lookback) == {t \in Times : now - lookback <= t /\ t <= now}

\* The evidence of a window is a rate: a sum over the ticks of the lookback.
LEMMA EvidenceSums ==
  ASSUME NEW w \in Windows, NEW now \in Int, NEW lookback \in Nat
  PROVE  /\ IsFiniteSet(Lookback(now, lookback))
         /\ Evidence(w, now, lookback).tokens =
              SumFunctionOnSet([t \in Lookback(now, lookback) |-> w[t].tokens],
                               Lookback(now, lookback))
         /\ Evidence(w, now, lookback).seconds =
              SumFunctionOnSet([t \in Lookback(now, lookback) |-> w[t].seconds],
                               Lookback(now, lookback))
         /\ \A t \in Lookback(now, lookback) : w[t].tokens \in Nat /\ w[t].seconds \in Nat
         /\ Evidence(w, now, lookback) \in Rates
<1> DEFINE S == Lookback(now, lookback)
           f == [t \in S |-> w[t].tokens]
           g == [t \in S |-> w[t].seconds]
<1>1. IsFiniteSet(S)
  <2>1. IsFiniteSet(Times) /\ S \subseteq Times
    BY Constants, FS_Interval DEF Times, Lookback
  <2> QED
    BY <2>1, FS_Subset
<1>2. \A t \in S : w[t].tokens \in Nat /\ w[t].seconds \in Nat
  <2>1. \A t \in S : w[t] \in Rates
    BY DEF Windows, Lookback
  <2> QED
    BY <2>1 DEF Rates
<1>3. Evidence(w, now, lookback) =
        [tokens |-> SumFunctionOnSet(f, S), seconds |-> SumFunctionOnSet(g, S)]
  BY DEF Evidence, Lookback, SumFunction
<1>4. (\A t \in S : f[t] \in Nat) /\ (\A t \in S : g[t] \in Nat)
  BY <1>2
<1> HIDE DEF f, g, S
<1>5. SumFunctionOnSet(f, S) \in Nat /\ SumFunctionOnSet(g, S) \in Nat
  BY <1>1, <1>4, SumNatural
<1>6. Evidence(w, now, lookback) \in Rates
  BY <1>3, <1>5 DEF Rates
<1> QED
  BY <1>1, <1>2, <1>3, <1>6 DEF f, g, S

\* A shorter lookback shows no more.
LEMMA EvidenceOfPart ==
  ASSUME NEW w \in Windows, NEW now \in Int, NEW long \in Nat, NEW short \in 0 .. long
  PROVE  /\ Evidence(w, now, short).tokens <= Evidence(w, now, long).tokens
         /\ Evidence(w, now, short).seconds <= Evidence(w, now, long).seconds
<1> DEFINE S == Lookback(now, short)
           T == Lookback(now, long)
<1>0. short \in Nat
  OBVIOUS
<1>1. /\ IsFiniteSet(S) /\ IsFiniteSet(T) /\ S \subseteq T
      /\ \A t \in T : w[t].tokens \in Nat /\ w[t].seconds \in Nat
  <2>1. ASSUME NEW t \in S PROVE t \in T
    <3>1. t \in Times /\ now - short <= t /\ t <= now
      BY DEF Lookback
    <3>2. now - long <= now - short /\ t \in Int
      BY <3>1, Constants
    <3> QED
      BY <3>1, <3>2, Constants DEF Lookback
  <2> QED
    BY <1>0, <2>1, EvidenceSums
<1>2. /\ Evidence(w, now, short).tokens = SumFunctionOnSet([t \in S |-> w[t].tokens], S)
      /\ Evidence(w, now, short).seconds = SumFunctionOnSet([t \in S |-> w[t].seconds], S)
      /\ Evidence(w, now, long).tokens = SumFunctionOnSet([t \in T |-> w[t].tokens], T)
      /\ Evidence(w, now, long).seconds = SumFunctionOnSet([t \in T |-> w[t].seconds], T)
  BY <1>0, EvidenceSums
<1> HIDE DEF S, T
<1>3. ASSUME NEW f, \A t \in T : f[t] \in Nat
      PROVE  SumFunctionOnSet([t \in S |-> f[t]], S) <= SumFunctionOnSet([t \in T |-> f[t]], T)
  <2> DEFINE part == [t \in S |-> f[t]]
             whole == [t \in T |-> f[t]]
  <2>1. /\ \A t \in S : part[t] = whole[t] /\ whole[t] \in Int
        /\ \A t \in T : whole[t] \in Nat
    BY <1>1, <1>3
  <2> HIDE DEF part, whole
  <2>2. SumFunctionOnSet(whole, S) = SumFunctionOnSet(part, S)
    BY <1>1, <2>1, SumCongruence
  <2>3. SumFunctionOnSet(whole, S) <= SumFunctionOnSet(whole, T)
    BY <1>1, <2>1, SumOfPart
  <2>4. SumFunctionOnSet(part, S) <= SumFunctionOnSet(whole, T)
    BY <2>2, <2>3
  <2> QED
    BY <2>4 DEF part, whole
<1>4. SumFunctionOnSet([t \in S |-> w[t].tokens], S) <= SumFunctionOnSet([t \in T |-> w[t].tokens], T)
  <2> DEFINE f == [t \in T |-> w[t].tokens]
  <2>1. \A t \in T : f[t] \in Nat
    BY <1>1
  <2>2. /\ [t \in S |-> f[t]] = [t \in S |-> w[t].tokens]
        /\ [t \in T |-> f[t]] = [t \in T |-> w[t].tokens]
    BY <1>1
  <2> HIDE DEF f
  <2>3. SumFunctionOnSet([t \in S |-> f[t]], S) <= SumFunctionOnSet([t \in T |-> f[t]], T)
    BY <1>3, <2>1
  <2> QED
    BY <2>2, <2>3
<1>5. SumFunctionOnSet([t \in S |-> w[t].seconds], S) <= SumFunctionOnSet([t \in T |-> w[t].seconds], T)
  <2> DEFINE f == [t \in T |-> w[t].seconds]
  <2>1. \A t \in T : f[t] \in Nat
    BY <1>1
  <2>2. /\ [t \in S |-> f[t]] = [t \in S |-> w[t].seconds]
        /\ [t \in T |-> f[t]] = [t \in T |-> w[t].seconds]
    BY <1>1
  <2> HIDE DEF f
  <2>3. SumFunctionOnSet([t \in S |-> f[t]], S) <= SumFunctionOnSet([t \in T |-> f[t]], T)
    BY <1>3, <2>1
  <2> QED
    BY <2>2, <2>3
<1> QED
  BY <1>2, <1>4, <1>5

\* A window whose ticks have no tokens without seconds has none in sum.
LEMMA EvidenceWithoutSeconds ==
  ASSUME NEW w \in Windows, NEW now \in Int, NEW lookback \in Nat,
         \A t \in Times : w[t].seconds = 0 => w[t].tokens = 0,
         Evidence(w, now, lookback).seconds = 0
  PROVE  Evidence(w, now, lookback).tokens = 0
<1> DEFINE S == Lookback(now, lookback)
           f == [t \in S |-> w[t].tokens]
           g == [t \in S |-> w[t].seconds]
<1>1. /\ IsFiniteSet(S)
      /\ Evidence(w, now, lookback).tokens = SumFunctionOnSet(f, S)
      /\ Evidence(w, now, lookback).seconds = SumFunctionOnSet(g, S)
      /\ \A t \in S : w[t].tokens \in Nat /\ w[t].seconds \in Nat
  BY EvidenceSums
<1>2. \A t \in S : g[t] \in Nat /\ f[t] = w[t].tokens /\ g[t] = w[t].seconds /\ t \in Times
  BY <1>1 DEF Lookback
<1> HIDE DEF S, f, g
<1>3. \A t \in S : g[t] = 0
  <2> SUFFICES ASSUME NEW t \in S PROVE g[t] = 0
    OBVIOUS
  <2>1. SumFunctionOnSet(g, S) = g[t] + SumFunctionOnSet(g, S \ {t})
    BY <1>1, <1>2, SumTake
  <2>2. SumFunctionOnSet(g, S \ {t}) \in Nat
    <3>1. IsFiniteSet(S \ {t}) /\ \A x \in S \ {t} : g[x] \in Nat
      BY <1>1, <1>2, FS_Subset
    <3> QED
      BY <3>1, SumNatural
  <2> QED
    BY <1>1, <1>2, <2>1, <2>2
<1>4. \A t \in S : f[t] = 0
  BY <1>2, <1>3
<1> QED
  BY <1>1, <1>4, SumOfZeros

-----------------------------------------------------------------------------
(* Rates.                                                                  *)

\* A rate reaches itself.
LEMMA AtLeastItself == ASSUME NEW r \in Rates PROVE AtLeast(r, r)
<1>1. r.tokens \in Nat /\ r.seconds \in Nat
  BY DEF Rates
<1>2. r.tokens * r.seconds \in Nat
  BY <1>1, Products
<1> QED
  BY <1>2 DEF AtLeast

\* The bounds of a cell are rates.
LEMMA BoundsAreRates ==
  ASSUME NEW cell, cell.window \in Windows, NEW now \in Int
  PROVE  LowerBound(cell, now) \in Rates /\ AdmissionBound(cell, now) \in Rates
<1>1. /\ Evidence(cell.window, now, WINDOW) \in Rates
      /\ Evidence(cell.window, now, SHORT_WINDOW) \in Rates
  BY Constants, EvidenceSums
<1> QED
  BY <1>1 DEF LowerBound, AdmissionBound, Lower

\* What the core exports it also loads.
LEMMA ExportedCellsLoad ==
  ASSUME SurfaceInv, NEW key \in Exportable(state, state.last_time)
  PROVE  Validates(key, ProfileCell(state.surface[key], state.last_time))
<1> DEFINE cell == state.surface[key]
           now == state.last_time
           long == Evidence(cell.window, now, WINDOW)
           short == Evidence(cell.window, now, SHORT_WINDOW)
           out == ProfileCell(cell, now)
<1>1. /\ key \in DOMAIN state.surface /\ Qualified(cell, now)
      /\ state.surface \in Surfaces /\ now \in Int /\ CellSound(cell, now)
  BY FieldsOf DEF Exportable, SurfaceInv
<1>2. key \in Keys /\ cell \in SurfaceCells
  BY <1>1, SurfaceCellsOf
<1> HIDE DEF cell, now
<1>3. cell.window \in Windows
  BY <1>2 DEF SurfaceCells
<1>4. /\ short.seconds <= long.seconds /\ short.tokens <= long.tokens
      /\ long \in Rates /\ short \in Rates
  <2>1. SHORT_WINDOW \in 0 .. WINDOW
    BY Constants
  <2> QED
    BY <1>1, <1>3, <2>1, Constants, EvidenceOfPart, EvidenceSums
<1>5. short.seconds = 0 => short.tokens = 0
  BY <1>1, <1>3, Constants, EvidenceWithoutSeconds DEF CellSound
<1>6. long.seconds >= MIN_EXPOSURE
  BY <1>1 DEF Qualified
<1>7. out.long = long /\ out.short = short /\ out.lower = LowerBound(cell, now)
  BY DEF ProfileCell
<1>8. LowerBound(cell, now) = IF Known(short) THEN Lower(short, long) ELSE long
  BY DEF LowerBound
<1>9. LowerBound(cell, now) \in Rates
  BY <1>1, <1>3, BoundsAreRates
<1> HIDE DEF long, short, out
<1>10. AtLeast(IF Known(out.short) THEN Lower(out.short, out.long) ELSE out.long, out.lower)
  <2>1. (IF Known(out.short) THEN Lower(out.short, out.long) ELSE out.long) = out.lower
    BY <1>7, <1>8
  <2> QED
    BY <1>7, <1>9, <2>1, AtLeastItself
<1>11. Validates(key, out)
  BY <1>2, <1>4, <1>5, <1>6, <1>7, <1>10 DEF Validates
<1> QED
  BY <1>11 DEF out, cell, now

\* A profile exported at the time of the last call passes the validation of
\* the core that loads it.
THEOREM SurfaceExportsLoad == Spec => []ExportLoads
<1>1. SurfaceInv => ExportLoads
  BY ExportedCellsLoad DEF ExportLoads, ExportProfile
<1> QED
  BY SurfaceInvariance, <1>1, PTL
-----------------------------------------------------------------------------
(* The order of rates.                                                     *)

\* Multiplication and the order of the naturals.
LEMMA TimesLess ==
  /\ \A a, b, c \in Nat : a <= b => a * c <= b * c
  /\ \A a, b, c \in Nat : a < b /\ c > 0 => a * c < b * c
  /\ \A a, b \in Nat : a * b = b * a /\ a * b \in Nat
  /\ \A a, b, c \in Nat : (a * b) * c = a * (b * c)
OBVIOUS

\* A rate as fast as one that reaches the reference reaches it.
LEMMA ReachesAlike ==
  ASSUME NEW r \in Rates, NEW s \in Rates, Known(r), Known(s), AtLeast(r, s),
         NEW reference \in Nat, Reaches(s, reference)
  PROVE  Reaches(r, reference)
<1>1. PICK rt, rs, st, ss \in Nat :
        /\ rt = r.tokens /\ rs = r.seconds /\ st = s.tokens /\ ss = s.seconds
  BY DEF Rates
<1>2. rs > 0 /\ ss > 0 /\ rt * ss >= st * rs /\ st >= reference * ss
  BY <1>1 DEF Known, AtLeast, Reaches
<1>3. SUFFICES ASSUME rt < reference * rs PROVE FALSE
  <2>1. reference * rs \in Nat
    BY <1>1, Products
  <2> QED
    BY <1>1, <2>1 DEF Reaches
<1>4. reference * rs \in Nat /\ reference * ss \in Nat
  BY <1>1, Products
<1>5. rt * ss < (reference * rs) * ss
  BY <1>1, <1>2, <1>3, <1>4, TimesLess
<1>6. (reference * ss) * rs <= st * rs
  BY <1>1, <1>2, <1>4, TimesLess
<1>7. (reference * rs) * ss = (reference * ss) * rs
  BY <1>1, TimesLess
<1>8. rt * ss \in Nat /\ st * rs \in Nat /\ (reference * rs) * ss \in Nat
  BY <1>1, <1>4, Products
<1> QED
  BY <1>2, <1>5, <1>6, <1>7, <1>8

\* Of two rates one reaches the other.
LEMMA AtLeastTotal ==
  ASSUME NEW r \in Rates, NEW s \in Rates
  PROVE  AtLeast(r, s) \/ AtLeast(s, r)
<1>1. r.tokens * s.seconds \in Nat /\ s.tokens * r.seconds \in Nat
  BY Products DEF Rates
<1> QED
  BY <1>1 DEF AtLeast

\* Reaching is transitive, by way of a rate that is known.
LEMMA AtLeastTransitive ==
  ASSUME NEW q \in Rates, NEW r \in Rates, NEW s \in Rates, Known(r),
         AtLeast(q, r), AtLeast(r, s)
  PROVE  AtLeast(q, s)
<1>1. PICK qt, qs, rt, rs, st, ss \in Nat :
        /\ qt = q.tokens /\ qs = q.seconds /\ rt = r.tokens /\ rs = r.seconds
        /\ st = s.tokens /\ ss = s.seconds
  BY DEF Rates
<1>2. rs > 0 /\ rt * qs <= qt * rs /\ st * rs <= rt * ss
  <2>1. rt * qs \in Nat /\ qt * rs \in Nat /\ st * rs \in Nat /\ rt * ss \in Nat
    BY <1>1, Products
  <2> QED
    BY <1>1, <2>1 DEF Known, AtLeast
<1>3. /\ rt * qs \in Nat /\ qt * rs \in Nat /\ st * rs \in Nat /\ rt * ss \in Nat
      /\ qt * ss \in Nat /\ st * qs \in Nat
  BY <1>1, Products
<1>4. (rt * qs) * ss <= (qt * rs) * ss /\ (st * rs) * qs <= (rt * ss) * qs
  BY <1>1, <1>2, <1>3, TimesLess
<1>5. /\ (rt * qs) * ss = (rt * ss) * qs /\ (qt * rs) * ss = (qt * ss) * rs
      /\ (st * rs) * qs = (st * qs) * rs
  <2>1. ASSUME NEW a \in Nat, NEW b \in Nat, NEW c \in Nat PROVE (a * b) * c = (a * c) * b
    BY TimesLess
  <2> QED
    BY <1>1, <2>1
<1>6. (st * qs) * rs <= (qt * ss) * rs
  <2>1. /\ (st * rs) * qs \in Nat /\ (rt * ss) * qs \in Nat /\ (rt * qs) * ss \in Nat
        /\ (qt * rs) * ss \in Nat /\ (st * qs) * rs \in Nat /\ (qt * ss) * rs \in Nat
    BY <1>1, <1>3, Products
  <2> QED
    BY <1>4, <1>5, <2>1
<1>7. st * qs <= qt * ss
  <2> SUFFICES ASSUME qt * ss < st * qs PROVE FALSE
    BY <1>3
  <2>1. (qt * ss) * rs < (st * qs) * rs
    BY <1>1, <1>2, <1>3, TimesLess
  <2>2. (st * qs) * rs \in Nat /\ (qt * ss) * rs \in Nat
    BY <1>1, <1>3, Products
  <2> QED
    BY <1>6, <2>1, <2>2
<1> QED
  BY <1>1, <1>3, <1>7 DEF AtLeast

-----------------------------------------------------------------------------
(* The lowest bound.                                                       *)

\* A strict total order has a first element in every finite set.
LEMMA FirstOf ==
  ASSUME NEW S, IsFiniteSet(S), S # {}, NEW R,
         \A x, y \in S : x # y => <<x, y>> \in R \/ <<y, x>> \in R,
         \A x, y, z \in S : <<x, y>> \in R /\ <<y, z>> \in R => <<x, z>> \in R
  PROVE  \E x \in S : \A y \in S \ {x} : <<x, y>> \in R
<1> DEFINE Good == {s \in SUBSET S : s # {} => \E x \in s : \A y \in s \ {x} : <<x, y>> \in R}
<1>1. ASSUME NEW s \in SUBSET S, \A t \in SUBSET s : t # s => t \in Good PROVE s \in Good
  <2> SUFFICES ASSUME s # {} PROVE \E x \in s : \A y \in s \ {x} : <<x, y>> \in R
    OBVIOUS
  <2>1. PICK e : e \in s
    OBVIOUS
  <2> DEFINE t == s \ {e}
  <2>2. CASE t = {}
    BY <2>1, <2>2
  <2>3. CASE t # {}
    <3>1. t \in SUBSET s /\ t # s
      BY <2>1
    <3>2. PICK x \in t : \A y \in t \ {x} : <<x, y>> \in R
      BY <1>1, <2>3, <3>1
    <3>3. CASE <<x, e>> \in R
      BY <3>2, <3>3
    <3>4. CASE <<e, x>> \in R
      BY <2>1, <3>2, <3>4
    <3> QED
      BY <2>1, <3>2, <3>3, <3>4
  <2> QED
    BY <2>2, <2>3
<1> HIDE DEF Good
<1>2. Good \in SUBSET (SUBSET S)
  BY DEF Good
<1>3. S \in Good
  BY <1>1, <1>2, SetInduction
<1> QED
  BY <1>3 DEF Good

\* Keys are finitely many pairs of numbers.
LEMMA KeysAreFinite ==
  IsFiniteSet(Keys) /\ \A k \in Keys : k[1] \in Int /\ k[2] \in Int /\ k = <<k[1], k[2]>>
<1>1. Keys = (1 .. NativeMaxRunning) \X (0 .. 3)
  BY DEF Keys, Abstract!Cells, Abstract!Classes, Abstract!PRESSURE_CLASSES
<1>2. PICK S, T : /\ S = 1 .. NativeMaxRunning /\ T = 0 .. 3
                  /\ IsFiniteSet(S) /\ IsFiniteSet(T)
  <2>1. ASSUME NEW m \in Int, NEW n \in Int PROVE IsFiniteSet(m .. n)
    BY FS_Interval
  <2>2. 0 \in Int /\ 1 \in Int /\ 3 \in Int /\ NativeMaxRunning \in Int
    BY Constants
  <2>3. IsFiniteSet(1 .. NativeMaxRunning)
    BY <2>1, <2>2
  <2>4. IsFiniteSet(0 .. 3)
    BY <2>1, <2>2
  <2> QED
    BY <2>3, <2>4
<1>3. IsFiniteSet(S \X T)
  BY <1>2, FS_Product, Zenon
<1>4. IsFiniteSet(Keys)
  BY <1>1, <1>2, <1>3, Zenon
<1> QED
  BY <1>1, <1>4

\* Among known bounds the lowest is one of them, and none is lower.
LEMMA LowestIsKnown ==
  ASSUME NEW bounds, DOMAIN bounds \subseteq Keys,
         \A k \in DOMAIN bounds : bounds[k].rate \in Rates,
         \E k \in DOMAIN bounds : Known(bounds[k].rate)
  PROVE  \E k \in DOMAIN bounds :
           /\ Known(bounds[k].rate) /\ Lowest(bounds) = bounds[k]
           /\ \A j \in DOMAIN bounds :
                Known(bounds[j].rate) => AtLeast(bounds[j].rate, bounds[k].rate)
<1> DEFINE known == {k \in DOMAIN bounds : Known(bounds[k].rate)}
           Better(k, j) == /\ AtLeast(bounds[j].rate, bounds[k].rate)
                           /\ AtLeast(bounds[k].rate, bounds[j].rate) => Precedes(k, j)
           best(k) == \A j \in known \ {k} : Better(k, j)
           R == {p \in known \X known : Better(p[1], p[2])}
<1>1. known # {} /\ IsFiniteSet(known)
  BY KeysAreFinite, FS_Subset
<1>2. \A k \in known : bounds[k].rate \in Rates /\ Known(bounds[k].rate) /\ k \in Keys
  OBVIOUS
<1> HIDE DEF known
<1>3. ASSUME NEW x \in known, NEW y \in known, x # y PROVE Better(x, y) \/ Better(y, x)
  <2>1. x[1] # y[1] \/ x[2] # y[2]
    BY <1>2, <1>3, KeysAreFinite
  <2>2. /\ x[1] \in Int /\ x[2] \in Int /\ y[1] \in Int /\ y[2] \in Int
    BY <1>2, KeysAreFinite
  <2>3. Precedes(x, y) \/ Precedes(y, x)
    BY <2>1, <2>2 DEF Precedes
  <2>4. AtLeast(bounds[x].rate, bounds[y].rate) \/ AtLeast(bounds[y].rate, bounds[x].rate)
    BY <1>2, AtLeastTotal
  <2> QED
    BY <2>3, <2>4
<1>4. ASSUME NEW x \in known, NEW y \in known, NEW z \in known, Better(x, y), Better(y, z)
      PROVE  Better(x, z)
  <2>1. AtLeast(bounds[z].rate, bounds[x].rate)
    BY <1>2, <1>4, AtLeastTransitive
  <2>2. ASSUME AtLeast(bounds[x].rate, bounds[z].rate) PROVE Precedes(x, z)
    <3>1. AtLeast(bounds[x].rate, bounds[y].rate) /\ AtLeast(bounds[y].rate, bounds[z].rate)
      BY <1>2, <1>4, <2>2, AtLeastTransitive
    <3>2. Precedes(x, y) /\ Precedes(y, z)
      BY <1>4, <3>1
    <3>3. /\ x[1] \in Int /\ x[2] \in Int /\ y[1] \in Int /\ y[2] \in Int
          /\ z[1] \in Int /\ z[2] \in Int
      BY <1>2, KeysAreFinite
    <3> QED
      BY <3>2, <3>3 DEF Precedes
  <2> QED
    BY <2>1, <2>2
<1>5. \E k \in known : best(k)
  <2>1. \A x, y \in known : <<x, y>> \in R <=> Better(x, y)
    OBVIOUS
  <2> HIDE DEF R, Better
  <2>2. \A x, y \in known : x # y => <<x, y>> \in R \/ <<y, x>> \in R
    BY <1>3, <2>1
  <2>3. \A x, y, z \in known : <<x, y>> \in R /\ <<y, z>> \in R => <<x, z>> \in R
    BY <1>4, <2>1
  <2>4. PICK x \in known : \A y \in known \ {x} : <<x, y>> \in R
    BY <1>1, <2>2, <2>3, FirstOf
  <2> QED
    BY <2>1, <2>4
<1>6. PICK k : k = CHOOSE x \in known : best(x)
  OBVIOUS
<1>7. k \in known /\ best(k)
  BY <1>5, <1>6
<1>8. Lowest(bounds) = bounds[k]
  BY <1>1, <1>6 DEF Lowest, known
<1>9. \A j \in known : AtLeast(bounds[j].rate, bounds[k].rate)
  BY <1>2, <1>7, AtLeastItself
<1> QED
  BY <1>7, <1>8, <1>9 DEF known
-----------------------------------------------------------------------------
(* Bounds and verdicts.                                                    *)

\* The five verdicts on a bound, when there is a reference.
VerdictIs(reference, bound, run, v) ==
  \/ ~Known(bound.rate) /\ v = Abstract!Verdict("unknown", FALSE)
  \/ /\ Known(bound.rate) /\ ~Reaches(bound.rate, reference)
     /\ v = Abstract!Verdict("tps_risk", bound.used_live)
  \/ /\ Known(bound.rate) /\ Reaches(bound.rate, reference)
     /\ Known(run) /\ ~Reaches(run, reference)
     /\ v = Abstract!Verdict("aggregate_tps_risk", TRUE)
  \/ /\ Known(bound.rate) /\ Reaches(bound.rate, reference)
     /\ Known(run) => Reaches(run, reference)
     /\ bound.used_prior /\ ~bound.used_live
     /\ v = Abstract!Verdict("cold_prior", bound.used_live)
  \/ /\ Known(bound.rate) /\ Reaches(bound.rate, reference)
     /\ Known(run) => Reaches(run, reference)
     /\ ~(bound.used_prior /\ ~bound.used_live)
     /\ v = Abstract!Verdict("fit", bound.used_live)

\* The verdict is one of the cases of VerdictIs.
LEMMA VerdictCases ==
  ASSUME NEW reference, reference # 0, NEW observed, NEW bound, NEW run
  PROVE  VerdictIs(reference, bound, run, AdmissionVerdict(reference, observed, bound, run))
BY Zenon DEF AdmissionVerdict, VerdictIs

\* Live evidence comes of a cell of the surface, a prior of a profile that
\* has not expired.
LEMMA LiveAndPrior ==
  ASSUME NEW s, Sound(s), NEW now \in Int, NEW key
  PROVE  /\ Live(s, now, key) \in Rates /\ Prior(s, now, key) \in Rates
         /\ Known(Live(s, now, key)) => key \in DOMAIN s.surface
         /\ Known(Prior(s, now, key)) => PriorActive(s, now) /\ key \in DOMAIN s.prior
<1>1. /\ s.surface \in Surfaces /\ s.prior \in Priors
  BY FieldsOf
<1>2. ~Known(Nothing) /\ Nothing \in Rates
  BY Constants DEF Known, Nothing
<1>3. key \in DOMAIN s.surface => AdmissionBound(s.surface[key], now) \in Rates
  <2> SUFFICES ASSUME key \in DOMAIN s.surface
               PROVE  AdmissionBound(s.surface[key], now) \in Rates
    OBVIOUS
  <2>1. s.surface[key] \in SurfaceCells
    BY <1>1, SurfaceCellsOf
  <2>2. s.surface[key].window \in Windows
    BY <2>1 DEF SurfaceCells
  <2> QED
    BY <2>2, BoundsAreRates
<1>4. key \in DOMAIN s.prior => s.prior[key] \in Rates
  BY <1>1 DEF Priors
<1> QED
  BY <1>2, <1>3, <1>4 DEF Live, Prior

Qualifies(s, now, key) == key \in DOMAIN s.surface /\ Qualified(s.surface[key], now)

\* The bound of a key, by what is known of it.
BoundIs(s, now, key, live, prior, b) ==
  \/ /\ Known(live) /\ Known(prior) /\ ~AtLeast(live, prior)
     /\ Reprobes(s, now, key, live, prior) /\ b = Bound(prior, FALSE, TRUE)
  \/ /\ Known(live) /\ Known(prior) /\ ~AtLeast(live, prior)
     /\ b = Bound(live, TRUE, FALSE)
  \/ /\ Known(live) /\ Known(prior) /\ AtLeast(live, prior)
     /\ Qualifies(s, now, key) /\ b = Bound(prior, TRUE, TRUE)
  \/ /\ Known(live) /\ Known(prior) /\ AtLeast(live, prior)
     /\ ~Qualifies(s, now, key) /\ b = Bound(prior, FALSE, TRUE)
  \/ /\ Known(live) /\ ~Known(prior) /\ Qualifies(s, now, key)
     /\ b = Bound(live, TRUE, FALSE)
  \/ /\ ~Known(live) /\ Known(prior) /\ b = Bound(prior, FALSE, TRUE)
  \/ /\ ~Known(prior) /\ (Known(live) => ~Qualifies(s, now, key)) /\ b = NoBound

\* The bound of a cell is one of the cases of BoundIs.
LEMMA BoundCases ==
  ASSUME NEW s, NEW now, NEW key
  PROVE  BoundIs(s, now, key, Live(s, now, key), Prior(s, now, key), BoundForKey(s, now, key))
<1> SUFFICES ASSUME NEW live, live = Live(s, now, key), NEW prior, prior = Prior(s, now, key),
                    NEW b, b = BoundForKey(s, now, key)
             PROVE  BoundIs(s, now, key, live, prior, b)
  OBVIOUS
<1> USE DEF BoundIs
<1>1. b = BoundOf(live, prior, Qualifies(s, now, key), Reprobes(s, now, key, live, prior))
  BY DEF BoundForKey, Qualifies
<1> HIDE DEF Qualifies, Reprobes
<1>2. CASE Known(live) /\ Known(prior) /\ ~AtLeast(live, prior)
  BY <1>1, <1>2 DEF BoundOf
<1>3. CASE Known(live) /\ Known(prior) /\ AtLeast(live, prior)
  <2>1. b = Bound(prior, Qualifies(s, now, key), TRUE)
    BY <1>1, <1>3 DEF BoundOf
  <2>2. Qualifies(s, now, key) \in BOOLEAN
    BY DEF Qualifies, Qualified
  <2>3. CASE Qualifies(s, now, key)
    <3>1. Qualifies(s, now, key) = TRUE
      BY <2>2, <2>3, Zenon
    <3>2. b = Bound(prior, TRUE, TRUE)
      BY <2>1, <3>1, Zenon
    <3> QED
      BY <1>3, <2>3, <3>2, Zenon
  <2>4. CASE ~Qualifies(s, now, key)
    <3>1. Qualifies(s, now, key) = FALSE
      BY <2>2, <2>4, Zenon
    <3>2. b = Bound(prior, FALSE, TRUE)
      BY <2>1, <3>1, Zenon
    <3> QED
      BY <1>3, <2>4, <3>2, Zenon
  <2> QED
    BY <2>3, <2>4
<1>4. CASE Known(live) /\ ~Known(prior)
  BY <1>1, <1>4 DEF BoundOf
<1>5. CASE ~Known(live) /\ Known(prior)
  BY <1>1, <1>5 DEF BoundOf
<1>6. CASE ~Known(live) /\ ~Known(prior)
  BY <1>1, <1>6 DEF BoundOf
<1> QED
  BY <1>2, <1>3, <1>4, <1>5, <1>6

\* A rate without a time is unknown, and so is the bound of nothing.
LEMMA NothingIsUnknown ==
  /\ ~Known(Nothing) /\ Nothing \in Rates
  /\ NoBound.rate = Nothing /\ NoBound.used_live = FALSE /\ NoBound.used_prior = FALSE
BY Constants DEF Known, Nothing, NoBound, Bound

\* The bound of a slow cell is slow, but for a re-probe.
LEMMA SlowBound ==
  ASSUME NEW s, Sound(s), NEW now \in Int, NEW key,
         Known(Live(s, now, key)), ~Reaches(Live(s, now, key), s.reference),
         Qualifies(s, now, key) \/ Known(Prior(s, now, key)),
         NEW b, b = BoundForKey(s, now, key)
  PROVE  /\ Known(b.rate)
         /\ \/ ~Reaches(b.rate, s.reference)
            \/ key[1] = s.active + 1 /\ Known(RunBound(s, now))
               /\ b.used_prior /\ ~b.used_live
<1>1. PICK live, prior \in Rates : live = Live(s, now, key) /\ prior = Prior(s, now, key)
  BY LiveAndPrior
<1>2. Known(live) /\ ~Reaches(live, s.reference) /\ s.reference \in Nat
  BY <1>1, FieldsOf
<1>3. CASE /\ Known(live) /\ Known(prior) /\ ~AtLeast(live, prior)
           /\ Reprobes(s, now, key, live, prior) /\ b = Bound(prior, FALSE, TRUE)
  <2>1. b.rate = prior
    BY <1>3 DEF Bound
  <2>2. b.used_prior /\ ~b.used_live
    <3>1. b.used_prior = TRUE /\ b.used_live = FALSE
      BY <1>3 DEF Bound
    <3> QED
      BY <3>1, Zenon
  <2>3. Known(prior) /\ key[1] = s.active + 1 /\ Known(RunBound(s, now))
    BY <1>3, Zenon DEF Reprobes
  <2> QED
    BY <2>1, <2>2, <2>3
<1>4. CASE b = Bound(live, TRUE, FALSE)
  <2>1. b.rate = live
    BY <1>4 DEF Bound
  <2> QED
    BY <1>2, <2>1
<1>5. CASE /\ Known(prior) /\ AtLeast(live, prior)
           /\ b = Bound(prior, TRUE, TRUE) \/ b = Bound(prior, FALSE, TRUE)
  <2>1. b.rate = prior
    BY <1>5 DEF Bound
  <2>2. ~Reaches(prior, s.reference)
    BY <1>2, <1>5, ReachesAlike
  <2> QED
    BY <1>5, <2>1, <2>2
<1>6. CASE b = NoBound /\ ~Known(prior) /\ (Known(live) => ~Qualifies(s, now, key))
  BY <1>1, <1>2, <1>6
<1> HIDE DEF Qualifies
<1>7. BoundIs(s, now, key, live, prior, b)
  BY <1>1, BoundCases
<1> QED
  BY <1>2, <1>3, <1>4, <1>5, <1>6, <1>7, Zenon DEF BoundIs

\* Whoever is admitted to a cell that is measured and slow is the one
\* re-probe of it.
LEMMA ReprobesSafely ==
  ASSUME SurfaceInv, NEW key \in DOMAIN state.surface, state.reference > 0,
         NEW now, now = state.last_time,
         Known(Live(state, now, key)), ~Reaches(Live(state, now, key), state.reference),
         Qualified(state.surface[key], now) \/ Known(Prior(state, now, key)),
         NEW v, v = Admission(state, now, key), v.reason \in Abstract!FavourableReasons
  PROVE  /\ v.reason = "cold_prior" /\ key[1] = state.active + 1
         /\ Reaches(RunBound(state, now), state.reference) /\ Known(RunBound(state, now))
<1>1. Sound(state) /\ now \in Int /\ state.reference # 0
  BY FieldsOf DEF SurfaceInv
<1>2. PICK b : b = BoundForKey(state, now, key)
  OBVIOUS
<1>3. Qualifies(state, now, key) \/ Known(Prior(state, now, key))
  BY DEF Qualifies
<1>4. /\ Known(b.rate)
      /\ \/ ~Reaches(b.rate, state.reference)
         \/ key[1] = state.active + 1 /\ Known(RunBound(state, now))
            /\ b.used_prior /\ ~b.used_live
  BY <1>1, <1>2, <1>3, SlowBound
<1>5. Selected(state, now, key) = b
  BY <1>2, <1>4 DEF Selected
<1>6. PICK observed : observed = HasQualifiedLive(state, now)
  OBVIOUS
<1>7. v = AdmissionVerdict(state.reference, observed, b, RunBound(state, now))
  BY <1>5, <1>6 DEF Admission
<1>8. \A r, o : Abstract!Verdict(r, o).reason = r
  BY DEF Abstract!Verdict
<1>9. v.reason \in {"fit", "reference_disabled", "cold_prior"}
  BY DEF Abstract!FavourableReasons
<1>10. CASE ~Known(b.rate) /\ v = Abstract!Verdict("unknown", FALSE)
  BY <1>4, <1>10
<1>11. CASE v = Abstract!Verdict("tps_risk", b.used_live)
  <2>1. v.reason = "tps_risk"
    BY <1>8, <1>11, Zenon
  <2> QED
    BY <1>9, <2>1
<1>12. CASE v = Abstract!Verdict("aggregate_tps_risk", TRUE)
  <2>1. v.reason = "aggregate_tps_risk"
    BY <1>8, <1>12, Zenon
  <2> QED
    BY <1>9, <2>1
<1>13. CASE /\ Reaches(b.rate, state.reference)
            /\ Known(RunBound(state, now)) => Reaches(RunBound(state, now), state.reference)
            /\ b.used_prior /\ ~b.used_live /\ v = Abstract!Verdict("cold_prior", b.used_live)
  <2>1. v.reason = "cold_prior"
    BY <1>8, <1>13, Zenon
  <2> QED
    BY <1>4, <1>13, <2>1
<1>14. CASE /\ Reaches(b.rate, state.reference) /\ ~(b.used_prior /\ ~b.used_live)
  BY <1>4, <1>14
<1>15. VerdictIs(state.reference, b, RunBound(state, now), v)
  BY <1>1, <1>7, VerdictCases
<1> QED
  BY <1>10, <1>11, <1>12, <1>13, <1>14, <1>15, Zenon DEF VerdictIs

\* A cell that is measured and slow is favourable only for the slot next to
\* the run, on a prior that reaches the reference, while the run itself does.
THEOREM ReprobesAreSafe == Spec => []ReprobeSafe
<1>1. SurfaceInv => ReprobeSafe
  <2> SUFFICES ASSUME SurfaceInv, NEW key \in DOMAIN state.surface, state.reference > 0,
                      NEW now, now = state.last_time,
                      Known(Live(state, now, key)),
                      ~Reaches(Live(state, now, key), state.reference),
                      \/ Qualified(state.surface[key], now)
                      \/ Known(Prior(state, now, key)),
                      NEW v, v = Admission(state, now, key),
                      v.reason \in Abstract!FavourableReasons
               PROVE  /\ v.reason = "cold_prior" /\ key[1] = state.active + 1
                      /\ Reaches(RunBound(state, now), state.reference)
                      /\ Known(RunBound(state, now))
    BY Zenon DEF ReprobeSafe
  <2> QED
    BY ReprobesSafely
<1> QED
  BY SurfaceInvariance, <1>1, PTL
-----------------------------------------------------------------------------
(* Where a verdict comes from.                                             *)

\* A known bound is of live evidence for its key, or of a prior in force.
LEMMA BoundSource ==
  ASSUME NEW s, Sound(s), NEW now \in Int, NEW key, NEW b, b = BoundForKey(s, now, key)
  PROVE  /\ b.rate \in Rates
         /\ Known(b.rate) =>
              \/ b.used_live = TRUE /\ key \in DOMAIN s.surface
              \/ b.used_live = FALSE /\ b.used_prior = TRUE /\ PriorActive(s, now)
<1>1. PICK live, prior \in Rates : live = Live(s, now, key) /\ prior = Prior(s, now, key)
  BY LiveAndPrior
<1>2. /\ Known(live) => key \in DOMAIN s.surface
      /\ Known(prior) => PriorActive(s, now)
  BY <1>1, LiveAndPrior
<1>3. CASE b = Bound(prior, FALSE, TRUE) /\ Known(prior)
  <2>1. b.rate = prior /\ b.used_live = FALSE /\ b.used_prior = TRUE
    BY <1>3 DEF Bound
  <2> QED
    BY <1>2, <1>3, <2>1, Zenon
<1>4. CASE b = Bound(live, TRUE, FALSE) /\ Known(live)
  <2>1. b.rate = live /\ b.used_live = TRUE
    BY <1>4 DEF Bound
  <2> QED
    BY <1>2, <1>4, <2>1, Zenon
<1>5. CASE b = Bound(prior, TRUE, TRUE) /\ Known(live)
  <2>1. b.rate = prior /\ b.used_live = TRUE
    BY <1>5 DEF Bound
  <2> QED
    BY <1>2, <1>5, <2>1, Zenon
<1>6. CASE b = NoBound
  <2>1. b.rate \in Rates /\ ~Known(b.rate)
    BY <1>6, NothingIsUnknown
  <2> QED
    BY <2>1, Zenon
<1>7. BoundIs(s, now, key, live, prior, b)
  BY <1>1, BoundCases
<1> HIDE DEF Qualifies
<1> QED
  BY <1>3, <1>4, <1>5, <1>6, <1>7, Zenon DEF BoundIs

Heavier(k, key) == k[1] >= key[1] /\ k[2] >= key[2]
KeysFrom(s, key) == {k \in DOMAIN s.surface \cup DOMAIN s.prior : Heavier(k, key)}

\* The selected bound is the key's own, or else the lowest of the heavier.
LEMMA SelectedCases ==
  ASSUME NEW s, Sound(s), NEW now \in Int, NEW key \in Keys
  PROVE  \/ /\ Known(BoundForKey(s, now, key).rate)
            /\ Selected(s, now, key) = BoundForKey(s, now, key)
         \/ /\ ~Known(BoundForKey(s, now, key).rate)
            /\ \A k \in KeysFrom(s, key) : ~Known(BoundForKey(s, now, k).rate)
            /\ Selected(s, now, key) = NoBound
         \/ /\ ~Known(BoundForKey(s, now, key).rate)
            /\ \E k \in KeysFrom(s, key) :
                 /\ Known(BoundForKey(s, now, k).rate)
                 /\ Selected(s, now, key) = BoundForKey(s, now, k)
                 /\ \A j \in KeysFrom(s, key) :
                      Known(BoundForKey(s, now, j).rate) =>
                        AtLeast(BoundForKey(s, now, j).rate, BoundForKey(s, now, k).rate)
<1> DEFINE K == KeysFrom(s, key)
           bounds == [k \in K |-> BoundForKey(s, now, k)]
<1>1. CASE Known(BoundForKey(s, now, key).rate)
  BY <1>1 DEF Selected
<1>2. CASE ~Known(BoundForKey(s, now, key).rate)
  <2>1. Selected(s, now, key) = Lowest(bounds)
    BY <1>2 DEF Selected, KeysFrom, Heavier
  <2>2. DOMAIN bounds = K /\ \A k \in K : bounds[k] = BoundForKey(s, now, k)
    OBVIOUS
  <2>3. K \subseteq Keys
    <3>1. s.surface \in Surfaces /\ s.prior \in Priors
      BY FieldsOf
    <3>2. DOMAIN s.surface \subseteq Keys /\ DOMAIN s.prior \subseteq Keys
      BY <3>1, SurfaceCellsOf DEF Priors
    <3> QED
      BY <3>2 DEF KeysFrom
  <2>4. \A k \in K : BoundForKey(s, now, k).rate \in Rates
    BY BoundSource
  <2> HIDE DEF bounds, K
  <2>5. CASE \A k \in K : ~Known(BoundForKey(s, now, k).rate)
    <3>1. {k \in DOMAIN bounds : Known(bounds[k].rate)} = {}
      BY <2>2, <2>5
    <3>2. Lowest(bounds) = NoBound
      BY <3>1 DEF Lowest
    <3> QED
      BY <1>2, <2>1, <2>5, <3>2 DEF K
  <2>6. CASE \E k \in K : Known(BoundForKey(s, now, k).rate)
    <3>1. /\ DOMAIN bounds \subseteq Keys /\ \A k \in DOMAIN bounds : bounds[k].rate \in Rates
          /\ \E k \in DOMAIN bounds : Known(bounds[k].rate)
      BY <2>2, <2>3, <2>4, <2>6
    <3>2. PICK k \in DOMAIN bounds :
            /\ Known(bounds[k].rate) /\ Lowest(bounds) = bounds[k]
            /\ \A j \in DOMAIN bounds :
                 Known(bounds[j].rate) => AtLeast(bounds[j].rate, bounds[k].rate)
      BY <3>1, LowestIsKnown
    <3>3. /\ k \in K /\ Known(BoundForKey(s, now, k).rate)
          /\ Selected(s, now, key) = BoundForKey(s, now, k)
          /\ \A j \in K : Known(BoundForKey(s, now, j).rate) =>
               AtLeast(BoundForKey(s, now, j).rate, BoundForKey(s, now, k).rate)
      BY <2>1, <2>2, <3>2
    <3> QED
      BY <1>2, <3>3 DEF K
  <2> QED
    BY <2>5, <2>6
<1> QED
  BY <1>1, <1>2

\* What a known selection rests on.
LEMMA SelectedSource ==
  ASSUME NEW s, Sound(s), NEW now \in Int, NEW key \in Keys,
         NEW b, b = Selected(s, now, key), Known(b.rate)
  PROVE  \/ b.used_live = TRUE /\ \E k \in DOMAIN s.surface : Heavier(k, key)
         \/ b.used_live = FALSE /\ b.used_prior = TRUE /\ PriorActive(s, now)
<1>1. ~Known(NoBound.rate)
  BY NothingIsUnknown
<1>2. PICK k : b = BoundForKey(s, now, k) /\ (k = key \/ k \in KeysFrom(s, key))
  BY <1>1, SelectedCases
<1>3. Heavier(k, key)
  BY <1>2, KeysAreFinite DEF KeysFrom, Heavier
<1>4. \/ b.used_live = TRUE /\ k \in DOMAIN s.surface
      \/ b.used_live = FALSE /\ b.used_prior = TRUE /\ PriorActive(s, now)
  BY <1>2, BoundSource
<1> QED
  BY <1>3, <1>4, Zenon

\* Every verdict is one that GovernorCore permits.
LEMMA PermittedVerdict ==
  ASSUME SurfaceInv, NEW key \in Keys, NEW now, now = state.last_time
  PROVE  Admission(state, now, key) \in Abstract!CoreVerdicts(CoreOf(state), now, key[1], key[2])
<1> DEFINE c == CoreOf(state)
           measured == Abstract!Measured(c, key[1], key[2])
           verdicts == Abstract!CoreVerdicts(c, now, key[1], key[2])
<1>1. /\ Sound(state) /\ now \in Int /\ state.active \in Nat /\ state.reference \in Nat
      /\ state.deadline \in Nat
  BY FieldsOf DEF SurfaceInv
<1>2. /\ c.reference = state.reference /\ c.cells = DOMAIN state.surface
      /\ c.deadline = state.deadline /\ c.active = state.active
  BY DEF CoreOf
<1>3. PICK v, b, observed, run :
        /\ v = Admission(state, now, key) /\ b = Selected(state, now, key)
        /\ observed = HasQualifiedLive(state, now) /\ run = RunBound(state, now)
  OBVIOUS
<1>4. v = AdmissionVerdict(state.reference, observed, b, run)
  BY <1>3 DEF Admission
<1>5. CASE state.reference = 0
  <2>1. v = Abstract!Verdict("reference_disabled", observed)
    BY <1>4, <1>5 DEF AdmissionVerdict
  <2>2. observed \in (IF c.cells = {} THEN {FALSE} ELSE BOOLEAN)
    <3>1. HasQualifiedLive(state, now) \in BOOLEAN
      BY DEF HasQualifiedLive
    <3>2. DOMAIN state.surface = {} => ~HasQualifiedLive(state, now)
      BY DEF HasQualifiedLive
    <3> QED
      BY <1>2, <1>3, <3>1, <3>2, Zenon
  <2>3. v \in {Abstract!Verdict("reference_disabled", o) :
                 o \in IF c.cells = {} THEN {FALSE} ELSE BOOLEAN}
    BY <2>1, <2>2, Zenon
  <2>4. verdicts = {Abstract!Verdict("reference_disabled", o) :
                      o \in IF c.cells = {} THEN {FALSE} ELSE BOOLEAN}
    BY <1>2, <1>5 DEF Abstract!CoreVerdicts
  <2> QED
    BY <1>3, <2>3, <2>4, Zenon
<1>6. CASE state.reference # 0
  <2> DEFINE inForce == Abstract!PriorActive(c, now)
  <2>1. verdicts =
          {Abstract!Verdict("unknown", FALSE)}
            \cup (IF measured
                  THEN {Abstract!Verdict("fit", TRUE), Abstract!Verdict("tps_risk", TRUE)}
                  ELSE {})
            \cup (IF inForce
                  THEN {Abstract!Verdict("cold_prior", FALSE), Abstract!Verdict("tps_risk", FALSE)}
                  ELSE {})
            \cup (IF (measured \/ inForce) /\ c.active > 0
                  THEN {Abstract!Verdict("aggregate_tps_risk", TRUE)}
                  ELSE {})
    BY <1>2, <1>6 DEF Abstract!CoreVerdicts
  <2>2. inForce <=> PriorActive(state, now)
    BY <1>2 DEF Abstract!PriorActive, PriorActive
  <2>3. Known(b.rate) =>
          \/ b.used_live = TRUE /\ measured
          \/ b.used_live = FALSE /\ b.used_prior = TRUE /\ PriorActive(state, now)
    <3>1. (\E k \in DOMAIN state.surface : Heavier(k, key)) => measured
      BY <1>2 DEF Abstract!Measured, Heavier
    <3>2. Known(b.rate) =>
            \/ b.used_live = TRUE /\ \E k \in DOMAIN state.surface : Heavier(k, key)
            \/ b.used_live = FALSE /\ b.used_prior = TRUE /\ PriorActive(state, now)
      BY <1>1, <1>3, SelectedSource
    <3> QED
      BY <3>1, <3>2, Zenon
  <2>4. Known(run) => c.active > 0
    BY <1>1, <1>2, <1>3, NothingIsUnknown DEF RunBound
  <2> SUFFICES v \in verdicts
    BY <1>3, Zenon
  <2> HIDE DEF measured, inForce, c, verdicts
  <2>5. /\ Abstract!Verdict("unknown", FALSE) \in verdicts
        /\ measured => /\ Abstract!Verdict("fit", TRUE) \in verdicts
                       /\ Abstract!Verdict("tps_risk", TRUE) \in verdicts
        /\ inForce => /\ Abstract!Verdict("cold_prior", FALSE) \in verdicts
                      /\ Abstract!Verdict("tps_risk", FALSE) \in verdicts
        /\ (measured \/ inForce) /\ c.active > 0 =>
             Abstract!Verdict("aggregate_tps_risk", TRUE) \in verdicts
    <3>1. PICK u, f, t, p, q, g :
            /\ u = Abstract!Verdict("unknown", FALSE)
            /\ f = Abstract!Verdict("fit", TRUE) /\ t = Abstract!Verdict("tps_risk", TRUE)
            /\ p = Abstract!Verdict("cold_prior", FALSE)
            /\ q = Abstract!Verdict("tps_risk", FALSE)
            /\ g = Abstract!Verdict("aggregate_tps_risk", TRUE)
      OBVIOUS
    <3>2. verdicts = {u} \cup (IF measured THEN {f, t} ELSE {})
                       \cup (IF inForce THEN {p, q} ELSE {})
                       \cup (IF (measured \/ inForce) /\ c.active > 0 THEN {g} ELSE {})
      BY <2>1, <3>1, Zenon
    <3>3. /\ u \in verdicts /\ (measured => f \in verdicts /\ t \in verdicts)
          /\ inForce => p \in verdicts /\ q \in verdicts
          /\ (measured \/ inForce) /\ c.active > 0 => g \in verdicts
      BY <3>2
    <3> QED
      BY <3>1, <3>3, Zenon
  <2>6. CASE v = Abstract!Verdict("unknown", FALSE)
    BY <2>5, <2>6, Zenon
  <2>7. CASE Known(b.rate) /\ v = Abstract!Verdict("tps_risk", b.used_live)
    BY <2>5, <2>2, <2>3, <2>7, Zenon
  <2>8. CASE Known(b.rate) /\ Known(run) /\ v = Abstract!Verdict("aggregate_tps_risk", TRUE)
    BY <2>5, <2>2, <2>3, <2>4, <2>8, Zenon
  <2>9. CASE /\ Known(b.rate) /\ b.used_prior /\ ~b.used_live
             /\ v = Abstract!Verdict("cold_prior", b.used_live)
    BY <2>5, <2>2, <2>3, <2>9, Zenon
  <2>10. CASE /\ Known(b.rate) /\ ~(b.used_prior /\ ~b.used_live)
             /\ v = Abstract!Verdict("fit", b.used_live)
    BY <2>5, <2>2, <2>3, <2>10, Zenon
  <2>11. VerdictIs(state.reference, b, run, v)
    BY <1>4, <1>6, VerdictCases
  <2> QED
    BY <2>6, <2>7, <2>8, <2>9, <2>10, <2>11, Zenon DEF VerdictIs
<1> QED
  BY <1>5, <1>6

\* Every verdict of the core is one that GovernorCore, on which the scheduler
\* is checked, permits for what it keeps of the core.
THEOREM VerdictsArePermitted == Spec => []VerdictsPermitted
<1>1. SurfaceInv => VerdictsPermitted
  BY PermittedVerdict DEF VerdictsPermitted
<1> QED
  BY SurfaceInvariance, <1>1, PTL
-----------------------------------------------------------------------------
(* A restart with the exported profile.                                    *)

\* The bounds of a qualified cell are known, and what it admits by is no
\* lower than what it exports.
LEMMA QualifiedBounds ==
  ASSUME NEW cell, cell.window \in Windows, NEW now \in Int, Qualified(cell, now)
  PROVE  /\ Known(LowerBound(cell, now)) /\ Known(AdmissionBound(cell, now))
         /\ LowerBound(cell, now) \in Rates /\ AdmissionBound(cell, now) \in Rates
         /\ AtLeast(AdmissionBound(cell, now), LowerBound(cell, now))
<1> DEFINE long == Evidence(cell.window, now, WINDOW)
           short == Evidence(cell.window, now, SHORT_WINDOW)
<1>1. long \in Rates /\ short \in Rates
  BY Constants, EvidenceSums
<1>2. long.seconds >= MIN_EXPOSURE /\ long.seconds \in Nat /\ short.seconds \in Nat
  BY <1>1 DEF Qualified, Rates
<1>3. Known(long) /\ (short.seconds >= MIN_EXPOSURE => Known(short))
  BY <1>2, Constants DEF Known
<1>4. LowerBound(cell, now) = IF Known(short) THEN Lower(short, long) ELSE long
  BY DEF LowerBound
<1>5. AdmissionBound(cell, now) =
        IF short.seconds >= MIN_EXPOSURE THEN short ELSE LowerBound(cell, now)
  BY DEF AdmissionBound
<1>6. LowerBound(cell, now) \in Rates /\ AdmissionBound(cell, now) \in Rates
  BY BoundsAreRates
<1> HIDE DEF long, short
<1>7. Known(LowerBound(cell, now)) /\ Known(AdmissionBound(cell, now))
  BY <1>3, <1>4, <1>5 DEF Lower
<1>8. CASE short.seconds >= MIN_EXPOSURE
  <2>1. AdmissionBound(cell, now) = short /\ Known(short)
    BY <1>3, <1>5, <1>8
  <2>2. LowerBound(cell, now) = IF AtLeast(short, long) THEN long ELSE short
    BY <1>4, <2>1 DEF Lower
  <2>3. AtLeast(short, short)
    BY <1>1, AtLeastItself
  <2>4. AtLeast(AdmissionBound(cell, now), LowerBound(cell, now))
    BY <2>1, <2>2, <2>3
  <2> QED
    BY <1>6, <1>7, <2>4
<1>9. CASE ~(short.seconds >= MIN_EXPOSURE)
  <2>1. AtLeast(AdmissionBound(cell, now), LowerBound(cell, now))
    BY <1>5, <1>6, <1>9, AtLeastItself
  <2> QED
    BY <1>6, <1>7, <2>1
<1> QED
  BY <1>6, <1>7, <1>8, <1>9

\* What a core exports is its qualified cells.
LEMMA ExportsQualified ==
  ASSUME SurfaceInv, NEW now, now = state.last_time, NEW key
  PROVE  /\ key \in Exportable(state, now) <=> Qualifies(state, now, key)
         /\ Qualifies(state, now, key) =>
              /\ Known(LowerBound(state.surface[key], now))
              /\ Known(AdmissionBound(state.surface[key], now))
              /\ LowerBound(state.surface[key], now) \in Rates
              /\ AdmissionBound(state.surface[key], now) \in Rates
              /\ AtLeast(AdmissionBound(state.surface[key], now),
                         LowerBound(state.surface[key], now))
<1>1. state.surface \in Surfaces /\ now \in Int
  BY FieldsOf DEF SurfaceInv
<1>2. ASSUME key \in DOMAIN state.surface PROVE state.surface[key].window \in Windows
  <2>1. state.surface[key] \in SurfaceCells
    BY <1>1, <1>2, SurfaceCellsOf
  <2> QED
    BY <2>1 DEF SurfaceCells
<1> QED
  BY <1>1, <1>2, QualifiedBounds DEF Exportable, Qualifies

\* The core that starts with the profile.
LEMMA RestartedCore ==
  ASSUME SurfaceInv, NEW now, now = state.last_time, now # NoTime,
         NEW r, r = NewWithProfile(state.reference, now, ExportProfile(state, now))
  PROVE  /\ Sound(r) /\ r.reference = state.reference /\ DOMAIN r.surface = {}
         /\ PriorActive(r, now) /\ DOMAIN r.prior = Exportable(state, now)
         /\ \A key \in Exportable(state, now) :
              r.prior[key] = LowerBound(state.surface[key], now)
<1>1. /\ Sound(state) /\ now \in Times /\ now \in Nat /\ state.reference \in Nat
      /\ state.surface \in Surfaces /\ TTL \in Nat \ {0}
  BY FieldsOf, Constants DEF SurfaceInv
<1>2. PICK n : n = New(state.reference)
  OBVIOUS
<1>3. /\ n \in States /\ n.surface = NoCells /\ DOMAIN NoCells = {}
      /\ n.reference = state.reference
  BY <1>1, <1>2, Fresh DEF New
<1> DEFINE K == Exportable(state, now)
           cells == ExportProfile(state, now)
           prior == [key \in DOMAIN cells |-> cells[key].lower]
<1>4. DOMAIN cells = K /\ \A key \in K : cells[key].lower = LowerBound(state.surface[key], now)
  BY DEF ExportProfile, ProfileCell
<1>5. K \in SUBSET Keys
  BY <1>1, SurfaceCellsOf DEF Exportable
<1>6. \A key \in K : LowerBound(state.surface[key], now) \in Rates
  BY ExportsQualified
<1> HIDE DEF K, cells
<1>7. DOMAIN prior = K /\ \A key \in K : prior[key] = LowerBound(state.surface[key], now)
  BY <1>4
<1>8. prior \in Priors
  <2>1. prior \in [K -> Rates]
    BY <1>4, <1>6
  <2> QED
    BY <1>5, <2>1 DEF Priors
<1> DEFINE deadline == now + TTL
<1>9. r = [n EXCEPT !.prior = prior, !.last_time = now, !.deadline = deadline]
  BY <1>2 DEF NewWithProfile, cells
<1>10. deadline \in Nat /\ now < deadline
  BY <1>1
<1> HIDE DEF prior, deadline
<1>11. /\ r \in States /\ r.surface = NoCells /\ r.reference = n.reference
       /\ r.prior = prior /\ r.deadline = deadline
  BY <1>1, <1>3, <1>8, <1>9, <1>10 DEF States
<1>12. Sound(r)
  BY <1>3, <1>11 DEF Sound
<1> QED
  BY <1>3, <1>7, <1>10, <1>11, <1>12 DEF PriorActive, K

\* Its bounds are the exported ones.
LEMMA RestartedBound ==
  ASSUME SurfaceInv, NEW now, now = state.last_time, now # NoTime,
         NEW r, r = NewWithProfile(state.reference, now, ExportProfile(state, now)), NEW key
  PROVE  /\ Qualifies(state, now, key) =>
              /\ BoundForKey(r, now, key).rate = LowerBound(state.surface[key], now)
              /\ Known(BoundForKey(r, now, key).rate)
         /\ ~Qualifies(state, now, key) => ~Known(BoundForKey(r, now, key).rate)
<1>1. /\ DOMAIN r.surface = {} /\ PriorActive(r, now) /\ DOMAIN r.prior = Exportable(state, now)
      /\ \A k \in Exportable(state, now) : r.prior[k] = LowerBound(state.surface[k], now)
  BY RestartedCore
<1>2. PICK live, prior, b : /\ live = Live(r, now, key) /\ prior = Prior(r, now, key)
                            /\ b = BoundForKey(r, now, key)
  OBVIOUS
<1>3. ~Known(live)
  BY <1>1, <1>2, NothingIsUnknown DEF Live
<1>4. BoundIs(r, now, key, live, prior, b)
  BY <1>2, BoundCases
<1> HIDE DEF Qualifies
<1>5. \/ Known(prior) /\ b = Bound(prior, FALSE, TRUE)
      \/ ~Known(prior) /\ b = NoBound
  BY <1>3, <1>4, Zenon DEF BoundIs
<1>6. CASE Qualifies(state, now, key)
  <2>1. prior = LowerBound(state.surface[key], now) /\ Known(prior)
    BY <1>1, <1>2, <1>6, ExportsQualified DEF Prior
  <2>2. b = Bound(prior, FALSE, TRUE)
    BY <1>5, <2>1, Zenon
  <2>3. b.rate = prior
    BY <2>2 DEF Bound
  <2> QED
    BY <1>2, <1>6, <2>1, <2>3
<1>7. CASE ~Qualifies(state, now, key)
  <2>1. ~Known(prior)
    BY <1>1, <1>2, <1>7, ExportsQualified, NothingIsUnknown DEF Prior
  <2>2. b = NoBound
    BY <1>5, <2>1, Zenon
  <2> QED
    BY <1>2, <1>7, <2>2, NothingIsUnknown
<1> QED
  BY <1>6, <1>7

\* Without a prior the core's own bounds are those of its qualified cells.
LEMMA MeasuredBound ==
  ASSUME SurfaceInv, NEW now, now = state.last_time, ~PriorActive(state, now), NEW key
  PROVE  /\ Qualifies(state, now, key) =>
              /\ BoundForKey(state, now, key).rate = AdmissionBound(state.surface[key], now)
              /\ Known(BoundForKey(state, now, key).rate)
              /\ BoundForKey(state, now, key).used_live = TRUE
         /\ ~Qualifies(state, now, key) => ~Known(BoundForKey(state, now, key).rate)
<1>1. PICK live, prior, b : /\ live = Live(state, now, key) /\ prior = Prior(state, now, key)
                            /\ b = BoundForKey(state, now, key)
  OBVIOUS
<1>2. ~Known(prior)
  BY <1>1, NothingIsUnknown DEF Prior
<1>3. BoundIs(state, now, key, live, prior, b)
  BY <1>1, BoundCases
<1>4. CASE Qualifies(state, now, key)
  <2>1. live = AdmissionBound(state.surface[key], now) /\ Known(live)
    BY <1>1, <1>4, ExportsQualified DEF Live, Qualifies
  <2> HIDE DEF Qualifies
  <2>2. b = Bound(live, TRUE, FALSE)
    BY <1>2, <1>3, <1>4, <2>1, Zenon DEF BoundIs
  <2>3. b.rate = live /\ b.used_live = TRUE
    BY <2>2 DEF Bound
  <2> QED
    BY <1>1, <1>4, <2>1, <2>3, Zenon
<1>5. CASE ~Qualifies(state, now, key)
  <2> HIDE DEF Qualifies
  <2>1. b = NoBound
    BY <1>2, <1>3, <1>5, Zenon DEF BoundIs
  <2> QED
    BY <1>1, <1>5, <2>1, NothingIsUnknown
<1> QED
  BY <1>4, <1>5

\* If the restarted core selects a bound that reaches the reference, so does
\* the core whose profile it is, and on live evidence.
LEMMA RestartSelects ==
  ASSUME SurfaceInv, NEW now, now = state.last_time, now # NoTime, ~PriorActive(state, now),
         NEW r, r = NewWithProfile(state.reference, now, ExportProfile(state, now)),
         NEW key \in Keys,
         Known(Selected(r, now, key).rate), Reaches(Selected(r, now, key).rate, state.reference)
  PROVE  /\ Known(Selected(state, now, key).rate)
         /\ Reaches(Selected(state, now, key).rate, state.reference)
         /\ Selected(state, now, key).used_live = TRUE
<1>1. Sound(state) /\ Sound(r) /\ now \in Int /\ state.reference \in Nat
  BY RestartedCore, FieldsOf DEF SurfaceInv
<1>2. DOMAIN r.surface = {} /\ DOMAIN r.prior = Exportable(state, now)
  BY RestartedCore
<1> DEFINE theirs(k) == BoundForKey(r, now, k)
           ours(k) == BoundForKey(state, now, k)
<1>3. ASSUME NEW k
      PROVE  /\ Known(theirs(k).rate) <=> Qualifies(state, now, k)
             /\ Known(ours(k).rate) <=> Qualifies(state, now, k)
             /\ Known(ours(k).rate) =>
                  /\ ours(k).used_live = TRUE /\ AtLeast(ours(k).rate, theirs(k).rate)
                  /\ ours(k).rate \in Rates /\ theirs(k).rate \in Rates
  <2> HIDE DEF Qualifies
  <2>1. /\ Known(theirs(k).rate) <=> Qualifies(state, now, k)
        /\ Qualifies(state, now, k) => theirs(k).rate = LowerBound(state.surface[k], now)
    BY RestartedBound
  <2>2. /\ Known(ours(k).rate) <=> Qualifies(state, now, k)
        /\ Qualifies(state, now, k) => ours(k).rate = AdmissionBound(state.surface[k], now)
    BY MeasuredBound
  <2>3. Qualifies(state, now, k) => ours(k).used_live = TRUE
    BY MeasuredBound
  <2>4. Qualifies(state, now, k) =>
          /\ LowerBound(state.surface[k], now) \in Rates
          /\ AdmissionBound(state.surface[k], now) \in Rates
          /\ AtLeast(AdmissionBound(state.surface[k], now), LowerBound(state.surface[k], now))
    BY ExportsQualified
  <2> HIDE DEF theirs, ours
  <2> QED
    BY <2>1, <2>2, <2>3, <2>4
<1>4. \A k : k \in KeysFrom(r, key) /\ Known(theirs(k).rate) => k \in KeysFrom(state, key)
  BY <1>2 DEF KeysFrom, Exportable
<1>5. \A k : k \in KeysFrom(state, key) /\ Known(ours(k).rate) => k \in KeysFrom(r, key)
  BY <1>2, <1>3, ExportsQualified DEF KeysFrom
<1> HIDE DEF theirs, ours, Qualifies
<1>6. ASSUME NEW j, NEW k, Known(theirs(j).rate), Known(ours(k).rate),
             AtLeast(theirs(k).rate, theirs(j).rate), Reaches(theirs(j).rate, state.reference)
      PROVE  Reaches(ours(k).rate, state.reference)
  <2>1. Known(theirs(k).rate) /\ Known(ours(j).rate)
    BY <1>3, <1>6
  <2>2. Reaches(theirs(k).rate, state.reference)
    BY <1>1, <1>3, <1>6, <2>1, ReachesAlike
  <2> QED
    BY <1>1, <1>3, <1>6, <2>1, <2>2, ReachesAlike
<1>7. CASE Known(theirs(key).rate)
  <2>1. Selected(r, now, key) = theirs(key)
    BY <1>7 DEF Selected, theirs
  <2>2. Known(ours(key).rate)
    BY <1>3, <1>7
  <2>3. Selected(state, now, key) = ours(key)
    BY <2>2 DEF Selected, ours
  <2>4. AtLeast(theirs(key).rate, theirs(key).rate)
    BY <1>3, <2>2, AtLeastItself
  <2>5. Reaches(ours(key).rate, state.reference)
    BY <1>6, <1>7, <2>1, <2>2, <2>4
  <2> QED
    BY <1>3, <2>2, <2>3, <2>5
<1>8. CASE ~Known(theirs(key).rate)
  <2>1. PICK j \in KeysFrom(r, key) :
          /\ Known(theirs(j).rate) /\ Selected(r, now, key) = theirs(j)
          /\ \A k \in KeysFrom(r, key) :
               Known(theirs(k).rate) => AtLeast(theirs(k).rate, theirs(j).rate)
    BY <1>1, <1>8, SelectedCases, NothingIsUnknown DEF theirs
  <2>2. ~Known(ours(key).rate) /\ Known(ours(j).rate) /\ j \in KeysFrom(state, key)
    BY <1>3, <1>4, <1>8, <2>1
  <2>3. PICK k \in KeysFrom(state, key) :
          Known(ours(k).rate) /\ Selected(state, now, key) = ours(k)
    BY <1>1, <2>2, SelectedCases DEF ours
  <2>4. AtLeast(theirs(k).rate, theirs(j).rate)
    BY <1>3, <1>5, <2>1, <2>3
  <2>5. Reaches(ours(k).rate, state.reference)
    BY <1>6, <2>1, <2>3, <2>4
  <2> QED
    BY <1>3, <2>3, <2>5
<1> QED
  BY <1>7, <1>8

\* What a restarted core finds favourable the core that exported finds it too, or
\* finds only the aggregate at risk.
LEMMA RestartsCautiously ==
  ASSUME SurfaceInv, NEW now, now = state.last_time, now # NoTime, state.reference > 0,
         ~PriorActive(state, now),
         NEW r, r = NewWithProfile(state.reference, now, ExportProfile(state, now)),
         NEW key \in Keys, Admission(r, now, key).reason \in Abstract!FavourableReasons
  PROVE  Admission(state, now, key).reason \in {"fit", "aggregate_tps_risk"}
<1>1. r.reference = state.reference /\ state.reference # 0
  BY RestartedCore
<1>2. \A x, o : Abstract!Verdict(x, o).reason = x
  BY DEF Abstract!Verdict
<1>3. PICK v, b, observed, run :
        /\ v = Admission(r, now, key) /\ b = Selected(r, now, key)
        /\ observed = HasQualifiedLive(r, now) /\ run = RunBound(r, now)
  OBVIOUS
<1>4. v = AdmissionVerdict(state.reference, observed, b, run)
  BY <1>1, <1>3 DEF Admission
<1>5. v.reason \in {"fit", "reference_disabled", "cold_prior"}
  BY <1>3 DEF Abstract!FavourableReasons
<1>6. /\ v # Abstract!Verdict("unknown", FALSE)
      /\ v # Abstract!Verdict("tps_risk", b.used_live)
      /\ v # Abstract!Verdict("aggregate_tps_risk", TRUE)
  <2>1. v.reason # "unknown" /\ v.reason # "tps_risk" /\ v.reason # "aggregate_tps_risk"
    BY <1>5
  <2> QED
    BY <1>2, <2>1, Zenon
<1>7. Known(b.rate) /\ Reaches(b.rate, state.reference)
  <2>1. VerdictIs(state.reference, b, run, v)
    BY <1>1, <1>4, VerdictCases
  <2> QED
    BY <1>6, <2>1, Zenon DEF VerdictIs
<1>8. PICK w, a, seen, own :
        /\ w = Admission(state, now, key) /\ a = Selected(state, now, key)
        /\ seen = HasQualifiedLive(state, now) /\ own = RunBound(state, now)
  OBVIOUS
<1>9. w = AdmissionVerdict(state.reference, seen, a, own)
  BY <1>8 DEF Admission
<1>10. Known(a.rate) /\ Reaches(a.rate, state.reference) /\ a.used_live = TRUE
  BY <1>3, <1>7, <1>8, RestartSelects
<1>11. \/ w = Abstract!Verdict("fit", a.used_live)
       \/ w = Abstract!Verdict("aggregate_tps_risk", TRUE)
  <2>1. VerdictIs(state.reference, a, own, w)
    BY <1>1, <1>9, VerdictCases
  <2> QED
    BY <1>10, <2>1, Zenon DEF VerdictIs
<1>12. w.reason = "fit" \/ w.reason = "aggregate_tps_risk"
  BY <1>2, <1>11, Zenon
<1> QED
  BY <1>8, <1>12

\* A server that starts with the profile its core would export admits nobody
\* whom the measurements of that core refuse.
THEOREM RestartsAreConservative == Spec => []RestartConservative
<1>1. SurfaceInv => RestartConservative
  BY RestartsCautiously DEF RestartConservative
<1> QED
  BY SurfaceInvariance, <1>1, PTL
=============================================================================
