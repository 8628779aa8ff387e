-------------------------- MODULE CoreFeaturesProofs --------------------------
(***************************************************************************)
(* What is proved of the features of a scene in CoreFeatures, whatever     *)
(* their parameters: timers keep time, what the scene writes is sent, what *)
(* is remembered is true, every event is heard once, and a tween is told   *)
(* completed when it is.  For each feature, an invariant of its state, the *)
(* lemma that a step of it keeps the invariant, and the theorem that puts  *)
(* together what the property says of it.                                  *)
(***************************************************************************)
EXTENDS CoreFeatures, SequenceFacts, FiniteSetsExt, SequenceTheorems

-----------------------------------------------------------------------------
(* The feature is chosen once, and only its own variables change.          *)
LEMMA FeatureStays ==
  ASSUME [CoreNext]_coreVars
  PROVE  feature' = feature
BY DEF CoreNext, coreVars, Rest, AllRest

-----------------------------------------------------------------------------
(* Timers.                                                                 *)
FrameStart == now - elapsedMs

(* A timer the walk has not reached holds its age at the frame's start,    *)
(* which is negative when a callback of this frame armed it.               *)
Waiting(timer) ==
  /\ timer.accumulatedTime < timer.interval
  /\ timer.accumulatedTime =
       IF timer.recurrent = FALSE \/ FrameStart < timer.armedAt THEN FrameStart - timer.armedAt
       ELSE (FrameStart - timer.armedAt) % timer.interval
  /\ phase # "idle" => timer.chain = 0 \/ timer.chain <= -timer.accumulatedTime

(* One it has reached holds its age at the frame's end.                    *)
Walked(timer) ==
  /\ timer.accumulatedTime < timer.interval
  /\ timer.accumulatedTime = IF timer.recurrent = FALSE THEN now - timer.armedAt
                             ELSE (now - timer.armedAt) % timer.interval
  /\ timer.chain <= elapsedMs

Timer == [interval : Nat \ {0}, recurrent : BOOLEAN, accumulatedTime : Int,
          armedAt : Int, chain : Nat]

OnTime ==
  /\ timerIdCounter \in 0 .. MaxTimers
  /\ phase \in {"idle", "walk", "callback"}
  /\ now \in Int /\ elapsedMs \in Nat /\ visited \in Int
  /\ visited >= -1 /\ visited < timerIdCounter
  /\ phase = "idle" => elapsedMs = 0 /\ visited = -1
  /\ \A id \in DOMAIN timers :
       /\ id \in 0 .. timerIdCounter - 1
       /\ timers[id] \in Timer /\ timers[id].armedAt <= now
       /\ id > visited => Waiting(timers[id])
       /\ id <= visited => Walked(timers[id])
  /\ phase = "callback" =>
       /\ armContext.accruedMs \in Nat /\ armContext.firedAt \in Int /\ armContext.chain \in Nat
       /\ armContext.firedAt <= now
       /\ armContext.accruedMs = armContext.firedAt - FrameStart
       /\ armContext.chain + 1 <= armContext.accruedMs

-----------------------------------------------------------------------------
(* A remainder is known by its equation.                                   *)
LEMMA ModuloIsUnique ==
  ASSUME NEW x \in Int, NEW n \in Nat \ {0}, NEW q \in Int, NEW r \in 0 .. n - 1,
         x = n * q + r
  PROVE  x % n = r
OBVIOUS

(* Adding to a remainder is adding to the number.                          *)
LEMMA ModuloOfSum ==
  ASSUME NEW x \in Int, NEW n \in Nat \ {0}, NEW e \in Int
  PROVE  ((x % n) + e) % n = (x + e) % n
<1> DEFINE r == x % n
           q == x \div n
           p == (r + e) \div n
           t == (r + e) % n
<1>1. q \in Int /\ r \in 0 .. n - 1 /\ x = n * q + r
  OBVIOUS
<1>2. p \in Int /\ t \in 0 .. n - 1 /\ r + e = n * p + t
  BY <1>1
<1> HIDE DEF r, q, p, t
<1>3. x + e = n * q + n * p + t
  BY <1>1, <1>2
<1>4. n * q + n * p = n * (q + p)
  BY <1>1, <1>2
<1>5. x + e = n * (q + p) + t
  BY <1>1, <1>2, <1>3, <1>4
<1>6. (x + e) % n = t
  <2>1. x + e \in Int /\ q + p \in Int /\ t \in 0 .. n - 1
    BY <1>1, <1>2
  <2> QED BY <1>5, <2>1, ModuloIsUnique
<1> QED BY <1>6, Zenon DEF r, t

(* A number below the interval is its own remainder.                       *)
LEMMA SmallModulo ==
  ASSUME NEW x \in Nat, NEW n \in Nat \ {0}, x < n
  PROVE  x % n = x
OBVIOUS

(* What is left of a number at least n is less by n, or more.              *)
LEMMA ModuloDrops ==
  ASSUME NEW x \in Int, NEW n \in Nat \ {0}
  PROVE  /\ x % n \in Nat /\ x % n < n
         /\ x >= n => x % n <= x - n
OBVIOUS

(* The walk has a next timer while there are any ahead.                    *)
LEMMA MinOfAhead ==
  ASSUME NEW S \in SUBSET Nat, S # {}
  PROVE  Min(S) \in S /\ \A y \in S : Min(S) <= y
<1>1. PICK x \in S : \A y \in S : ~(<<y, x>> \in OpToRel(<, Nat))
  BY NatLessThanWellFounded, WFMin, Zenon
<1>2. \A y \in S : ~(y < x)
  BY <1>1 DEF OpToRel
<1>3. \A y \in S : x <= y
  BY <1>2
<1> QED BY <1>3 DEF Min

(* What an iteration of the walk adds up: the age at the frame's end, in   *)
(* the case of a repeating timer up to periods.                            *)
LEMMA TimeIsAge ==
  ASSUME NEW timer \in Timer, Waiting(timer), timer.armedAt <= now,
         now \in Int, elapsedMs \in Nat,
         NEW time, time = timer.accumulatedTime + elapsedMs
  PROVE  /\ time \in Int /\ now - timer.armedAt \in Nat
         /\ timer.recurrent = FALSE => time = now - timer.armedAt
         /\ timer.recurrent = TRUE =>
              time % timer.interval = (now - timer.armedAt) % timer.interval /\ time \in Nat
<1> DEFINE n == timer.interval
           age == FrameStart - timer.armedAt
<1>1. /\ n \in Nat \ {0} /\ timer.recurrent \in BOOLEAN /\ timer.accumulatedTime \in Int
      /\ timer.armedAt \in Int /\ FrameStart \in Int /\ age \in Int
      /\ age + elapsedMs = now - timer.armedAt /\ now - timer.armedAt \in Nat
  BY DEF Timer, FrameStart
<1>2. CASE timer.recurrent = FALSE \/ FrameStart < timer.armedAt
  <2>1. time = age + elapsedMs
    BY <1>2 DEF Waiting
  <2> HIDE DEF age
  <2> QED BY <1>1, <2>1
<1>3. CASE timer.recurrent = TRUE /\ ~(FrameStart < timer.armedAt)
  <2>1. time = (age % n) + elapsedMs
    BY <1>3 DEF Waiting
  <2>2. time % n = (age + elapsedMs) % n
    <3>1. ((age % n) + elapsedMs) % n = (age + elapsedMs) % n
      BY <1>1, ModuloOfSum
    <3> QED BY <2>1, <3>1, Zenon
  <2>3. time \in Nat
    BY <1>1, <2>1, ModuloDrops
  <2> HIDE DEF age
  <2> QED BY <1>1, <1>3, <2>2, <2>3
<1> QED BY <1>1, <1>2, <1>3

-----------------------------------------------------------------------------
(* Steps that touch no timer.                                              *)
LEMMA TimersUntouched ==
  ASSUME OnTime, UNCHANGED <<timers, timerIdCounter, elapsedMs, visited, now>>,
         \/ phase = "callback" /\ phase' = "walk"
         \/ UNCHANGED <<phase, armContext>>
  PROVE  OnTime'
BY DEF OnTime, Waiting, Walked, FrameStart

(* setTimeout and setInterval, from a callback or between frames.          *)
LEMMA AddedOnTime ==
  ASSUME OnTime, TimerSystem!TimersAssumption, 0 \notin Intervals, NEW interval \in Intervals,
         NEW recurrent \in BOOLEAN, TimerSystem!addTimer(interval, recurrent)
  PROVE  OnTime'
<1> DEFINE new == timers'[timerIdCounter]
<1>1. /\ UNCHANGED <<phase, elapsedMs, visited, armContext, now>>
      /\ timerIdCounter' = timerIdCounter + 1 /\ timerIdCounter < MaxTimers
      /\ phase \in {"idle", "callback"}
      /\ DOMAIN timers' = DOMAIN timers \cup {timerIdCounter}
      /\ \A id \in DOMAIN timers : timers'[id] = timers[id]
      /\ new = [interval |-> interval, recurrent |-> recurrent, accumulatedTime |-> TimerSystem!Seed,
                armedAt |-> IF phase = "callback" THEN armContext.firedAt ELSE now,
                chain |-> IF phase = "callback" THEN armContext.chain + 1 ELSE 0]
  BY DEF TimerSystem!addTimer, TimerSystem!With, OnTime
<1>2. /\ interval \in Nat \ {0} /\ MaxTimers \in Nat /\ NaN \notin Int
  BY DEF TimerSystem!TimersAssumption
<1>3. new \in Timer /\ new.armedAt <= now /\ Waiting(new)
  <2>1. CASE phase = "idle"
    <3>1. new.accumulatedTime = 0 /\ new.armedAt = now /\ new.chain = 0
          /\ new.interval = interval /\ new.recurrent = recurrent
      BY <1>1, <2>1 DEF TimerSystem!Seed
    <3>2. FrameStart = now /\ now - now = 0 /\ now \in Int
      BY <2>1 DEF OnTime, FrameStart
    <3>3. 0 % interval = 0
      BY <1>2
    <3>4. new \in Timer
      BY <1>1, <1>2, <2>1, <3>2 DEF Timer, TimerSystem!Seed
    <3> HIDE DEF new
    <3> QED BY <1>2, <2>1, <3>1, <3>2, <3>3, <3>4 DEF Waiting
  <2>2. CASE phase = "callback"
    <3>1. /\ new.armedAt = armContext.firedAt /\ new.chain = armContext.chain + 1
          /\ new.interval = interval /\ new.recurrent = recurrent
      BY <1>1, <2>2
    <3>2. /\ armContext.accruedMs \in Nat /\ armContext.firedAt \in Int
          /\ armContext.chain \in Nat /\ armContext.firedAt <= now
          /\ armContext.accruedMs = armContext.firedAt - FrameStart
          /\ armContext.chain + 1 <= armContext.accruedMs
          /\ FrameStart \in Int
      BY <2>2 DEF OnTime, FrameStart
    <3>3. new.accumulatedTime = -armContext.accruedMs
      BY <1>1, <1>2, <2>2, <3>2 DEF TimerSystem!Seed, TimerSystem!Minus
    <3>4. new \in Timer
      BY <1>1, <1>2, <2>2, <3>2, <3>3 DEF Timer
    <3> HIDE DEF new
    <3> QED BY <1>2, <3>1, <3>2, <3>3, <3>4 DEF Waiting
  <2> QED BY <1>1, <2>1, <2>2
<1> HIDE DEF new
<1> QED BY <1>1, <1>2, <1>3 DEF OnTime, Waiting, Walked, FrameStart, new

(* clearTimeout and clearInterval.                                         *)
LEMMA ClearedOnTime ==
  ASSUME OnTime, NEW id \in TimerSystem!Ids, TimerSystem!clearTimer(id)
  PROVE  OnTime'
BY DEF OnTime, TimerSystem!clearTimer, TimerSystem!Without, Waiting, Walked, FrameStart

(* A frame starts where the one before ended.                              *)
LEMMA BegunOnTime ==
  ASSUME OnTime, NEW ms \in Nat, TimerSystem!BeginFrame(ms)
  PROVE  OnTime'
<1>1. /\ now \in Int /\ now' = now + ms /\ elapsedMs' = ms /\ elapsedMs = 0
      /\ phase = "idle" /\ phase' = "walk" /\ visited' = -1 /\ visited = -1
      /\ timerIdCounter' = timerIdCounter
      /\ FrameStart = now /\ FrameStart' = now
  BY DEF TimerSystem!BeginFrame, OnTime, FrameStart
<1>2. timers' = [id \in DOMAIN timers |-> [timers[id] EXCEPT !.chain = 0]]
  BY DEF TimerSystem!BeginFrame
<1>3. ASSUME NEW id \in DOMAIN timers'
      PROVE  /\ id \in 0 .. timerIdCounter' - 1 /\ id > visited'
             /\ timers'[id] \in Timer /\ timers'[id].armedAt <= now'
             /\ Waiting(timers[id])'
  <2>1. id \in DOMAIN timers /\ timers'[id] = [timers[id] EXCEPT !.chain = 0]
    BY <1>2, <1>3
  <2>2. /\ id \in 0 .. timerIdCounter - 1 /\ timers[id] \in Timer
        /\ timers[id].armedAt <= now /\ Waiting(timers[id])
    BY <1>1, <2>1 DEF OnTime
  <2>3. /\ timers'[id] \in Timer /\ timers'[id].chain = 0
        /\ timers'[id].interval = timers[id].interval
        /\ timers'[id].recurrent = timers[id].recurrent
        /\ timers'[id].accumulatedTime = timers[id].accumulatedTime
        /\ timers'[id].armedAt = timers[id].armedAt
    BY <2>1, <2>2 DEF Timer
  <2>4. timers[id].armedAt \in Int
    BY <2>2 DEF Timer
  <2> QED BY <1>1, <2>2, <2>3, <2>4 DEF Waiting
<1> QED BY <1>1, <1>3 DEF OnTime

(* ... and ends with every timer walked.                                   *)
LEMMA EndedOnTime ==
  ASSUME OnTime, TimerSystem!EndFrame
  PROVE  OnTime'
<1>1. /\ UNCHANGED <<timers, timerIdCounter, now>> /\ phase' = "idle"
      /\ visited' = -1 /\ elapsedMs' = 0 /\ now \in Int /\ FrameStart' = now
      /\ timerIdCounter \in 0 .. MaxTimers
  BY DEF TimerSystem!EndFrame, OnTime, FrameStart
<1>2. ASSUME NEW id \in DOMAIN timers
      PROVE  /\ id \in 0 .. timerIdCounter - 1 /\ timers[id] \in Timer
             /\ timers[id].armedAt <= now /\ Walked(timers[id])
  <2>1. id \in 0 .. timerIdCounter - 1 /\ visited \in Int /\ ~(id > visited)
    BY <1>2 DEF OnTime, TimerSystem!EndFrame, TimerSystem!Ahead
  <2> QED BY <2>1 DEF OnTime
<1>3. ASSUME NEW id \in DOMAIN timers
      PROVE  Waiting(timers[id])'
  <2>1. /\ timers[id]' = timers[id] /\ timers[id].armedAt \in Int
        /\ timers[id].recurrent \in BOOLEAN /\ ~(now < timers[id].armedAt)
    BY <1>1, <1>2, <1>3 DEF Timer
  <2>2. /\ timers[id].accumulatedTime < timers[id].interval
        /\ timers[id].accumulatedTime =
             IF timers[id].recurrent = FALSE THEN now - timers[id].armedAt
             ELSE (now - timers[id].armedAt) % timers[id].interval
    BY <1>2, <1>3 DEF Walked
  <2> QED BY <1>1, <2>1, <2>2 DEF Waiting
<1> QED BY <1>1, <1>2, <1>3 DEF OnTime

(* An iteration leaves alone all timers but the one it has come to.        *)
LEMMA OthersOnTime ==
  ASSUME NEW id, UNCHANGED <<timerIdCounter, elapsedMs, now>>, visited' = id,
         now \in Int, elapsedMs \in Nat, timerIdCounter \in 0 .. MaxTimers,
         id \in 0 .. timerIdCounter - 1, phase # "idle",
         DOMAIN timers' \subseteq DOMAIN timers,
         \A k \in DOMAIN timers' : k # id => timers'[k] = timers[k],
         \A k \in DOMAIN timers : k # id =>
           /\ k \in 0 .. timerIdCounter - 1 /\ timers[k] \in Timer /\ timers[k].armedAt <= now
           /\ k > id => Waiting(timers[k])
           /\ k <= id => Walked(timers[k]),
         id \in DOMAIN timers' =>
           timers'[id] \in Timer /\ timers'[id].armedAt <= now /\ Walked(timers[id])',
         phase' \in {"walk", "callback"},
         phase' = "callback" =>
           /\ armContext'.accruedMs \in Nat /\ armContext'.firedAt \in Int
           /\ armContext'.chain \in Nat /\ armContext'.firedAt <= now
           /\ armContext'.accruedMs = armContext'.firedAt - FrameStart
           /\ armContext'.chain + 1 <= armContext'.accruedMs
  PROVE  OnTime'
<1>1. ASSUME NEW k \in DOMAIN timers'
      PROVE  /\ k \in 0 .. timerIdCounter' - 1
             /\ timers'[k] \in Timer /\ timers'[k].armedAt <= now'
             /\ k > visited' => Waiting(timers[k])'
             /\ k <= visited' => Walked(timers[k])'
  <2>1. CASE k = id
    BY <1>1, <2>1
  <2>2. CASE k # id
    BY <1>1, <2>2 DEF Waiting, Walked, FrameStart
  <2> QED BY <2>1, <2>2
<1> QED BY <1>1 DEF OnTime, FrameStart

(* An iteration of the walk.                                               *)
LEMMA VisitedOnTime ==
  ASSUME OnTime, TimerSystem!TimersAssumption, TimerSystem!Visit
  PROVE  OnTime'
<1>1. PICK id \in DOMAIN timers :
        id = Min(TimerSystem!Ahead) /\ id > visited /\ \A k \in DOMAIN timers : k > visited => id <= k
  <2>1. TimerSystem!Ahead \in SUBSET Nat /\ TimerSystem!Ahead # {}
    BY DEF TimerSystem!Visit, TimerSystem!Ahead, OnTime
  <2>2. Min(TimerSystem!Ahead) \in TimerSystem!Ahead /\ \A y \in TimerSystem!Ahead : Min(TimerSystem!Ahead) <= y
    BY <2>1, MinOfAhead
  <2> QED BY <2>2 DEF TimerSystem!Ahead
<1> DEFINE timer == timers[id]
           time  == timer.accumulatedTime + elapsedMs
           rest  == TimerSystem!residualMs(timer, time)
           n     == timer.interval
           age   == now - timer.armedAt
<1>2. /\ id \in 0 .. timerIdCounter - 1 /\ timer \in Timer /\ timer.armedAt <= now
      /\ Waiting(timer) /\ now \in Int /\ elapsedMs \in Nat /\ phase = "walk"
      /\ visited \in Int /\ visited >= -1 /\ timerIdCounter \in 0 .. MaxTimers
  BY <1>1 DEF OnTime, TimerSystem!Visit
<1>3. /\ n \in Nat \ {0} /\ timer.recurrent \in BOOLEAN /\ timer.accumulatedTime \in Int
      /\ timer.armedAt \in Int /\ timer.chain \in Nat /\ NaN \notin Int
      /\ FrameStart \in Int /\ FrameStart = now - elapsedMs
  BY <1>2 DEF Timer, TimerSystem!TimersAssumption, FrameStart
<1>4. /\ time \in Int /\ age \in Nat
      /\ timer.recurrent = FALSE => time = age
      /\ timer.recurrent = TRUE => time % n = age % n /\ time \in Nat
  BY <1>2, TimeIsAge
<1>5. TimerSystem!Plus(timer.accumulatedTime, elapsedMs) = time /\ (TimerSystem!LessThan(time, n) <=> time < n)
  BY <1>2, <1>3, <1>4 DEF TimerSystem!Plus, TimerSystem!LessThan
<1>6. /\ visited' = id /\ UNCHANGED <<timerIdCounter, elapsedMs, now>>
      /\ \/ /\ time < n
            /\ timers' = [timers EXCEPT ![id].accumulatedTime = time]
            /\ UNCHANGED <<phase, armContext>>
         \/ /\ ~(time < n)
            /\ timers' = IF timer.recurrent
                         THEN [timers EXCEPT ![id].accumulatedTime = rest]
                         ELSE TimerSystem!Without(id)
            /\ phase' = "callback"
            /\ armContext' = [accruedMs |-> TimerSystem!Minus(elapsedMs, rest),
                              firedAt   |-> TimerSystem!FireInstant(timer),
                              chain     |-> timer.chain]
  BY <1>1, <1>5 DEF TimerSystem!Visit, TimerSystem!Ahead, TimerSystem!Min, Min
<1>7. ASSUME NEW k \in DOMAIN timers, k # id
      PROVE  /\ k \in 0 .. timerIdCounter - 1 /\ timers[k] \in Timer /\ timers[k].armedAt <= now
             /\ k > id => Waiting(timers[k])
             /\ k <= id => Walked(timers[k])
  BY <1>1, <1>2, <1>7 DEF OnTime
<1>8. timer.chain = 0 \/ timer.chain <= -timer.accumulatedTime
  BY <1>2 DEF Waiting
<1>9. CASE time < n
  <2>1. time = IF timer.recurrent = FALSE THEN age ELSE age % n
    BY <1>3, <1>4, <1>9, SmallModulo
  <2>2. timer.chain <= elapsedMs
    BY <1>2, <1>3, <1>4, <1>8, <1>9, TimeIsAge
  <2>3. /\ DOMAIN timers' = DOMAIN timers /\ UNCHANGED <<phase, armContext>>
        /\ \A k \in DOMAIN timers : k # id => timers'[k] = timers[k]
        /\ timers'[id] = [timer EXCEPT !.accumulatedTime = time]
    BY <1>1, <1>6, <1>9
  <2>4. /\ timers'[id] \in Timer /\ timers'[id].armedAt = timer.armedAt
        /\ timers'[id].interval = n /\ timers'[id].recurrent = timer.recurrent
        /\ timers'[id].chain = timer.chain /\ timers'[id].accumulatedTime = time
    BY <1>2, <1>4, <2>3 DEF Timer
  <2>5. Walked(timers[id])'
    BY <1>6, <1>9, <2>1, <2>2, <2>4 DEF Walked
  <2> HIDE DEF timer, time, rest
  <2> QED BY <1>2, <1>6, <1>7, <2>3, <2>4, <2>5, OthersOnTime
<1>10. CASE ~(time < n)
  <2>1. /\ rest \in Nat /\ rest <= time - n
        /\ rest = IF timer.recurrent = FALSE THEN age - n ELSE age % n
    <3>1. CASE timer.recurrent = TRUE
      <4>1. rest = time % n
        BY <1>3, <1>4, <3>1 DEF TimerSystem!residualMs, TimerSystem!Modulo
      <4> QED BY <1>3, <1>4, <1>10, <3>1, <4>1, ModuloDrops
    <3>2. CASE timer.recurrent = FALSE
      <4>1. rest = time - n
        BY <1>3, <1>4, <3>2 DEF TimerSystem!residualMs, TimerSystem!Minus
      <4> QED BY <1>3, <1>4, <1>10, <3>2, <4>1
    <3> QED BY <1>3, <3>1, <3>2
  <2>2. TimerSystem!FireInstant(timer) = now - rest
    BY <1>2, <1>3, <1>4, <2>1 DEF TimerSystem!FireInstant
  <2>3. TimerSystem!Minus(elapsedMs, rest) = elapsedMs - rest
    BY <1>2, <1>3, <2>1 DEF TimerSystem!Minus
  <2>4. /\ armContext'.accruedMs = elapsedMs - rest /\ armContext'.firedAt = now - rest
        /\ armContext'.chain = timer.chain /\ phase' = "callback"
    BY <1>6, <1>10, <2>2, <2>3
  <2>5. rest <= timer.accumulatedTime + elapsedMs - n /\ timer.accumulatedTime < n
    <3>1. timer.accumulatedTime < n
      BY <1>2 DEF Waiting
    <3>2. rest <= (timer.accumulatedTime + elapsedMs) - n
      BY <2>1
    <3> HIDE DEF timer, rest, n
    <3> QED BY <1>2, <1>3, <3>1, <3>2
  <2>6. /\ elapsedMs - rest \in Nat /\ now - rest \in Int /\ now - rest <= now
        /\ elapsedMs - rest = (now - rest) - FrameStart
        /\ timer.chain + 1 <= elapsedMs - rest /\ timer.chain <= elapsedMs
    <3> HIDE DEF timer, rest, n, time
    <3> QED BY <1>2, <1>3, <1>8, <2>1, <2>5
  <2>7. /\ DOMAIN timers' \subseteq DOMAIN timers
        /\ \A k \in DOMAIN timers' : k # id => timers'[k] = timers[k]
    BY <1>1, <1>6, <1>10 DEF TimerSystem!Without
  <2>8. ASSUME id \in DOMAIN timers'
        PROVE  timers'[id] \in Timer /\ timers'[id].armedAt <= now /\ Walked(timers[id])'
    <3>1. timer.recurrent = TRUE /\ timers'[id] = [timer EXCEPT !.accumulatedTime = rest]
      BY <1>1, <1>3, <1>6, <1>10, <2>8 DEF TimerSystem!Without
    <3>2. /\ timers'[id] \in Timer /\ timers'[id].armedAt = timer.armedAt
          /\ timers'[id].interval = n /\ timers'[id].recurrent = TRUE
          /\ timers'[id].chain = timer.chain /\ timers'[id].accumulatedTime = rest
      BY <1>2, <2>1, <3>1 DEF Timer
    <3>3. rest = age % n /\ rest < n
      BY <1>3, <1>4, <2>1, <3>1, ModuloDrops
    <3> QED BY <1>2, <1>6, <2>6, <3>2, <3>3 DEF Walked
  <2> HIDE DEF timer, time, rest
  <2> QED BY <1>2, <1>3, <1>6, <1>7, <2>4, <2>6, <2>7, <2>8, OthersOnTime
<1> QED BY <1>9, <1>10

(* A step of a scene with timers.                                          *)
LEMMA TimersStep ==
  ASSUME OnTime, TimerSystem!TimersAssumption, 0 \notin Intervals,
         TimerSystem!Next \/ UNCHANGED timerVars
  PROVE  OnTime'
<1>1. CASE \E interval \in Intervals, recurrent \in BOOLEAN : TimerSystem!addTimer(interval, recurrent)
  BY <1>1, AddedOnTime
<1>2. CASE \E id \in TimerSystem!Ids : TimerSystem!clearTimer(id)
  BY <1>2, ClearedOnTime
<1>3. CASE \E ms \in FrameTimes : TimerSystem!BeginFrame(ms)
  BY <1>3, BegunOnTime DEF TimerSystem!TimersAssumption
<1>4. CASE TimerSystem!Visit
  BY <1>4, VisitedOnTime
<1>5. CASE TimerSystem!EndCallback
  BY <1>5, TimersUntouched DEF TimerSystem!EndCallback
<1>6. CASE TimerSystem!EndFrame
  BY <1>6, EndedOnTime
<1>7. CASE UNCHANGED timerVars
  BY <1>7, TimersUntouched DEF timerVars
<1> QED BY <1>1, <1>2, <1>3, <1>4, <1>5, <1>6, <1>7 DEF TimerSystem!Next

(* What holds of every timer in its place makes them all keep time.        *)
LEMMA OnTimeKeepsTime ==
  ASSUME OnTime, TimerSystem!TimersAssumption
  PROVE  /\ TimerSystem!FiresAtItsInstant
         /\ TimerSystem!PhaseAccurate
         /\ TimerSystem!ChainWithinFrame
<1>1. TimerSystem!FiresAtItsInstant
  BY DEF OnTime, TimerSystem!FiresAtItsInstant, FrameStart
<1>2. TimerSystem!PhaseAccurate
  BY DEF OnTime, TimerSystem!PhaseAccurate, Waiting, FrameStart, Timer
<1>3. TimerSystem!ChainWithinFrame
  <2> SUFFICES ASSUME phase # "idle", NEW id \in DOMAIN timers
               PROVE  timers[id].chain <= elapsedMs
    BY DEF TimerSystem!ChainWithinFrame
  <2> DEFINE timer == timers[id]
  <2>1. /\ timer \in Timer /\ timer.armedAt <= now /\ now \in Int /\ elapsedMs \in Nat
        /\ Waiting(timer) \/ Walked(timer)
        /\ visited \in Int /\ id \in Int
    BY DEF OnTime
  <2>2. /\ timer.chain \in Nat /\ timer.armedAt \in Int /\ timer.interval \in Nat \ {0}
        /\ timer.accumulatedTime \in Int /\ FrameStart \in Int
        /\ FrameStart = now - elapsedMs
    BY <2>1 DEF Timer, FrameStart
  <2>3. ASSUME Waiting(timer)
        PROVE  timer.accumulatedTime \in Nat \/ -timer.accumulatedTime <= elapsedMs
    <3>1. FrameStart - timer.armedAt >= -elapsedMs
      BY <2>1, <2>2
    <3>2. (FrameStart - timer.armedAt) % timer.interval \in Nat
      BY <2>2, ModuloDrops
    <3>3. \/ timer.accumulatedTime = FrameStart - timer.armedAt
          \/ timer.accumulatedTime = (FrameStart - timer.armedAt) % timer.interval
      BY <2>3 DEF Waiting
    <3>4. CASE timer.accumulatedTime = FrameStart - timer.armedAt
      BY <2>1, <2>2, <3>1, <3>4
    <3> QED BY <3>2, <3>3, <3>4
  <2>4. Waiting(timer) => timer.chain = 0 \/ timer.chain <= -timer.accumulatedTime
    BY DEF Waiting
  <2>5. Walked(timer) => timer.chain <= elapsedMs
    BY DEF Walked
  <2> HIDE DEF timer
  <2>6. timer.chain <= elapsedMs
    BY <2>1, <2>2, <2>3, <2>4, <2>5
  <2> QED BY <2>6 DEF timer
<1> QED BY <1>1, <1>2, <1>3

TimersInv == feature = "timers" => OnTime

(* Timers keep time, however many there are, whatever their intervals (but *)
(* 0) and however long the frames: a callback runs at the instant its timer*)
(* is due and not before, none drifts, what a callback arms is measured    *)
(* from its instant, and a frame's callbacks arm one another no more often *)
(* than it has milliseconds.                                               *)
THEOREM TimersAreOnTime ==
  ASSUME 0 \notin Intervals
  PROVE  CoreSpec => []TimersKeepTime
<1>1. TimerSystem!TimersAssumption
  BY CoreAssumption
<1>2. CoreInit => TimersInv
  <2>1. TimerSystem!Init => OnTime
    BY <1>1 DEF TimerSystem!Init, OnTime, TimerSystem!TimersAssumption
  <2> QED BY <2>1 DEF CoreInit, TimersInv
<1>3. TimersInv /\ [CoreNext]_coreVars => TimersInv'
  <2> SUFFICES ASSUME TimersInv, [CoreNext]_coreVars, feature' = "timers"
               PROVE  OnTime'
    BY DEF TimersInv
  <2>1. feature = "timers"
    BY FeatureStays
  <2>2. TimerSystem!Next \/ UNCHANGED timerVars
    BY <2>1 DEF CoreNext, coreVars
  <2> QED BY <1>1, <2>1, <2>2, TimersStep DEF TimersInv
<1>4. TimersInv => TimersKeepTime
  BY <1>1, OnTimeKeepsTime DEF TimersInv, TimersKeepTime
<1> QED BY <1>2, <1>3, <1>4, PTL DEF CoreSpec

-----------------------------------------------------------------------------
(* The message bus.                                                        *)

(* Element by element: the queue goes on where the log ends, at emitted.   *)
InOrder(log, queue, emitted) ==
  /\ log \in Seq(Nat) /\ queue \in Seq(Nat) /\ emitted \in Nat
  /\ Len(log) + Len(queue) = emitted
  /\ \A i \in 1 .. Len(log) : log[i] = i
  /\ \A i \in 1 .. Len(queue) : queue[i] = Len(log) + i

(* The next message goes to the end of the queue.                          *)
LEMMA EmitKeepsOrder ==
  ASSUME NEW log, NEW queue, NEW emitted, InOrder(log, queue, emitted)
  PROVE  InOrder(log, Append(queue, emitted + 1), emitted + 1)
<1> DEFINE longer == Append(queue, emitted + 1)
<1>1. log \in Seq(Nat) /\ queue \in Seq(Nat) /\ emitted \in Nat
  BY DEF InOrder
<1>2. /\ longer \in Seq(Nat) /\ Len(longer) = Len(queue) + 1
      /\ \A i \in 1 .. Len(queue) + 1 :
           longer[i] = IF i <= Len(queue) THEN queue[i] ELSE emitted + 1
  BY <1>1
<1>3. /\ Len(log) \in Nat /\ Len(queue) \in Nat /\ Len(log) + Len(queue) = emitted
      /\ \A i \in 1 .. Len(queue) : queue[i] = Len(log) + i
  BY <1>1 DEF InOrder
<1> HIDE DEF longer
<1>4. \A i \in 1 .. Len(longer) : longer[i] = Len(log) + i
  <2> TAKE i \in 1 .. Len(longer)
  <2>1. CASE i <= Len(queue)
    BY <1>2, <1>3, <2>1, SMTT(20)
  <2>2. CASE i = Len(queue) + 1
    <3>1. longer[i] = emitted + 1
      BY <1>2, <1>3, <2>2
    <3> QED BY <1>1, <1>3, <2>2, <3>1
  <2> QED BY <1>2, <1>3, <2>1, <2>2
<1>5. Len(log) + Len(longer) = emitted + 1
  <2>1. Len(longer) = Len(queue) + 1
    BY <1>2
  <2> QED BY <1>1, <1>3, <2>1
<1>6. InOrder(log, longer, emitted + 1)
  BY <1>1, <1>2, <1>4, <1>5 DEF InOrder
<1> QED BY <1>6 DEF longer

(* The head of the queue goes to the end of the log.                       *)
LEMMA SendKeepsOrder ==
  ASSUME NEW log, NEW queue, NEW emitted, InOrder(log, queue, emitted), queue # <<>>
  PROVE  InOrder(Append(log, Head(queue)), Tail(queue), emitted) /\ Head(queue) \in Nat
<1> DEFINE longer == Append(log, Head(queue))
           rest   == Tail(queue)
<1>1. log \in Seq(Nat) /\ queue \in Seq(Nat) /\ emitted \in Nat
  BY DEF InOrder
<1>2. /\ Len(log) \in Nat /\ Len(queue) \in Nat \ {0} /\ 1 \in 1 .. Len(queue)
      /\ Head(queue) = queue[1] /\ queue[1] \in Nat
  BY <1>1
<1>3. Head(queue) = Len(log) + 1
  BY <1>2 DEF InOrder
<1>4. /\ rest \in Seq(Nat) /\ Len(rest) = Len(queue) - 1
      /\ \A i \in 1 .. Len(queue) - 1 : rest[i] = queue[i + 1]
  BY <1>1, <1>2
<1>5. /\ longer \in Seq(Nat) /\ Len(longer) = Len(log) + 1
      /\ \A i \in 1 .. Len(log) + 1 : longer[i] = IF i <= Len(log) THEN log[i] ELSE Head(queue)
  BY <1>1, <1>2, SMTT(20)
<1> HIDE DEF longer, rest
<1>6. \A i \in 1 .. Len(longer) : longer[i] = i
  BY <1>1, <1>2, <1>3, <1>5, SMTT(20) DEF InOrder
<1>7. \A i \in 1 .. Len(rest) : rest[i] = Len(longer) + i
  BY <1>1, <1>2, <1>4, <1>5, SMTT(20) DEF InOrder
<1>8. Len(longer) + Len(rest) = emitted
  <2>1. Len(log) + Len(queue) = emitted
    BY DEF InOrder
  <2>2. Len(rest) = Len(queue) - 1 /\ Len(longer) = Len(log) + 1
    BY <1>4, <1>5
  <2> QED BY <1>2, <2>1, <2>2
<1>9. InOrder(longer, rest, emitted)
  BY <1>1, <1>4, <1>5, <1>6, <1>7, <1>8 DEF InOrder
<1> QED BY <1>2, <1>9 DEF longer, rest

-----------------------------------------------------------------------------
BusFields == {"emitted", "messageQueue", "flushing", "sending", "handed", "heardHere"}

(* There is a queue only while one send is in course.                      *)
Ordered(b) ==
  /\ DOMAIN b = BusFields /\ b.flushing \in BOOLEAN
  /\ InOrder(b.handed, b.messageQueue, b.emitted)
  /\ b.flushing = FALSE => b.messageQueue = <<>> /\ b.sending = {}
  /\ b.flushing = TRUE => \E m \in Nat : b.sending = {m}

(* flush, once nothing is in course any more.                              *)
LEMMA FlushOrders ==
  ASSUME NEW b, DOMAIN b = BusFields, b.flushing = FALSE, b.sending = {},
         InOrder(b.handed, b.messageQueue, b.emitted)
  PROVE  Ordered(Bus!flush(b))
<1>1. CASE b.messageQueue = <<>>
  BY <1>1 DEF Bus!flush, Ordered
<1>2. CASE b.messageQueue # <<>>
  <2>1. Bus!flush(b) = [b EXCEPT !.messageQueue = Tail(b.messageQueue), !.flushing = TRUE,
                             !.sending = {Head(b.messageQueue)},
                             !.handed = Append(b.handed, Head(b.messageQueue))]
    BY <1>2 DEF Bus!flush, BusFields
  <2>2. /\ DOMAIN Bus!flush(b) = BusFields /\ Bus!flush(b).flushing = TRUE
        /\ Bus!flush(b).messageQueue = Tail(b.messageQueue)
        /\ Bus!flush(b).sending = {Head(b.messageQueue)}
        /\ Bus!flush(b).handed = Append(b.handed, Head(b.messageQueue))
        /\ Bus!flush(b).emitted = b.emitted
    BY <2>1 DEF BusFields
  <2>3. /\ InOrder(Bus!flush(b).handed, Bus!flush(b).messageQueue, Bus!flush(b).emitted)
        /\ Head(b.messageQueue) \in Nat
    BY <1>2, <2>2, SendKeepsOrder
  <2> HIDE DEF BusFields, InOrder
  <2> QED BY <2>2, <2>3 DEF Ordered
<1> QED BY <1>1, <1>2

(* A step of a scene with a message bus.                                   *)
LEMMA BusStep ==
  ASSUME Ordered(state), Bus!Next \/ UNCHANGED state
  PROVE  Ordered(state')
<1>1. CASE Bus!emit
  <2> DEFINE m == state.emitted + 1
             b == [state EXCEPT !.emitted = m, !.messageQueue = Append(@, m)]
  <2>1. state' = [Bus!flush(b) EXCEPT !.heardHere = Append(@, m)]
    BY <1>1 DEF Bus!emit
  <2>2. /\ DOMAIN b = BusFields /\ b.emitted = m /\ b.messageQueue = Append(state.messageQueue, m)
        /\ b.flushing = state.flushing /\ b.handed = state.handed /\ b.sending = state.sending
    BY DEF Ordered, BusFields
  <2>3. InOrder(b.handed, b.messageQueue, b.emitted)
    BY <2>2, EmitKeepsOrder DEF Ordered
  <2> HIDE DEF b
  <2>4. Ordered(Bus!flush(b))
    <3>1. CASE state.flushing = FALSE
      BY <2>2, <2>3, <3>1, FlushOrders DEF Ordered
    <3>2. CASE state.flushing = TRUE
      BY <2>2, <2>3, <3>2 DEF Ordered, Bus!flush
    <3> QED BY <3>1, <3>2 DEF Ordered
  <2> QED BY <2>1, <2>4 DEF Ordered, BusFields
<1>2. CASE Bus!Settles
  <2>1. PICK m \in state.sending \ Hangs :
          state' = Bus!flush([state EXCEPT !.sending = @ \ {m}, !.flushing = FALSE])
    BY <1>2 DEF Bus!Settles
  <2> DEFINE b == [state EXCEPT !.sending = @ \ {m}, !.flushing = FALSE]
  <2>2. /\ DOMAIN b = BusFields /\ b.emitted = state.emitted /\ b.flushing = FALSE
        /\ b.messageQueue = state.messageQueue /\ b.handed = state.handed
        /\ b.sending = {}
    BY <2>1 DEF Ordered, BusFields
  <2> HIDE DEF b
  <2>3. Ordered(Bus!flush(b))
    BY <2>2, FlushOrders DEF Ordered
  <2> QED BY <2>1, <2>3 DEF b
<1>3. CASE UNCHANGED state
  BY <1>3
<1> QED BY <1>1, <1>2, <1>3 DEF Bus!Next

(* What holds of the queue and the log puts them in one order.             *)
LEMMA OrderedIsInOrder ==
  ASSUME Ordered(state)
  PROVE  Bus!HandedInOrder
<1> DEFINE h == state.handed
           q == state.messageQueue
<1>1. /\ h \in Seq(Nat) /\ q \in Seq(Nat) /\ state.emitted = Len(h) + Len(q)
      /\ Len(h) \in Nat /\ Len(q) \in Nat
      /\ \A i \in 1 .. Len(h) : h[i] = i
      /\ \A i \in 1 .. Len(q) : q[i] = Len(h) + i
  <2>1. h \in Seq(Nat) /\ q \in Seq(Nat)
    BY DEF Ordered, InOrder
  <2>2. Len(h) \in Nat /\ Len(q) \in Nat
    BY <2>1
  <2>3. state.emitted = Len(h) + Len(q)
    BY DEF Ordered, InOrder
  <2>4. /\ \A i \in 1 .. Len(h) : h[i] = i
        /\ \A i \in 1 .. Len(q) : q[i] = Len(h) + i
    BY DEF Ordered, InOrder
  <2> QED BY <2>1, <2>2, <2>3, <2>4
<1>2. Len(q) > 0 => state.sending # {}
  <2>1. CASE state.flushing = TRUE
    BY <2>1 DEF Ordered
  <2>2. CASE state.flushing = FALSE
    <3>1. q = <<>>
      BY <2>2 DEF Ordered
    <3> HIDE DEF q
    <3> QED BY <3>1
  <2> QED BY <2>1, <2>2 DEF Ordered
<1>3. \A m, n \in state.sending : m = n
  BY DEF Ordered
<1> HIDE DEF h, q
<1>4. /\ h \o q \in Seq(Nat) /\ Len(h \o q) = Len(h) + Len(q)
      /\ \A i \in 1 .. Len(h) + Len(q) :
           (h \o q)[i] = IF i <= Len(h) THEN h[i] ELSE q[i - Len(h)]
  BY <1>1
<1>5. \A i \in 1 .. Len(h) + Len(q) : (h \o q)[i] = i
  BY <1>1, <1>4
<1>6. h \o q = [i \in 1 .. Len(h) + Len(q) |-> i]
  <2>1. DOMAIN (h \o q) = 1 .. Len(h) + Len(q)
    BY <1>1, <1>4
  <2>2. h \o q \in [1 .. Len(h) + Len(q) -> Nat]
    <3>1. h \o q \in [1 .. Len(h \o q) -> Nat]
      BY <1>4, LenProperties
    <3> QED BY <1>4, <3>1
  <2> QED BY <1>5, <2>1, <2>2
<1> QED BY <1>1, <1>2, <1>3, <1>6 DEF Bus!HandedInOrder, h, q

-----------------------------------------------------------------------------
(* Inputs of the UI, of a scene that only echoes what is reported.         *)
InputFields == {"inputValue", "props", "UiInput", "lastSentData", "lastInputResultValue",
                "UiInputResult", "onItsWay", "screen", "typed", "programmatic"}

(* Nothing is ever on its way: every value written is an echo.             *)
Echoing(f) ==
  /\ DOMAIN f = InputFields
  /\ f.inputValue = f.props.value
  /\ f.UiInput = [value |-> f.UiInput.value, color |-> f.props.color]
  /\ f.lastSentData = f.UiInput /\ f.onItsWay = NoText
  /\ f.typed # NoText => f.screen = f.typed

(* A step of a scene with an input.                                        *)
LEMMA InputStep ==
  ASSUME Echoing(state), Inputs!Next \/ UNCHANGED state
  PROVE  Echoing(state')
<1>1. CASE Inputs!Tick
  <2> DEFINE f == Inputs!Received(state)
             next == [value |-> f.inputValue, color |-> f.props.color]
  <2>1. state' = Inputs!Sent(Inputs!upsertComponent(f, next))
    BY <1>1 DEF Inputs!Tick, Inputs!SceneSteps
  <2>2. /\ DOMAIN f = InputFields
        /\ f.props = state.props /\ f.UiInput = state.UiInput
        /\ f.lastSentData = state.lastSentData /\ f.onItsWay = state.onItsWay
        /\ f.screen = state.screen /\ f.typed = state.typed
        /\ f.inputValue = f.props.value \/ f.inputValue = f.lastInputResultValue
    BY DEF Echoing, Inputs!Received, InputFields
  <2> HIDE DEF f
  <2>3. Inputs!upsertComponent(f, next) =
          [f EXCEPT !.UiInput = [value |-> f.UiInput.value, color |-> f.props.color], !.props = next]
    BY <2>2 DEF Inputs!upsertComponent, InputFields
  <2>4. Inputs!upsertComponent(f, next) = [f EXCEPT !.UiInput = state.UiInput, !.props = next]
    BY <2>2, <2>3 DEF Echoing
  <2>5. state' = [f EXCEPT !.UiInput = state.UiInput, !.props = next]
    BY <2>1, <2>2, <2>4 DEF Inputs!Sent, Echoing, InputFields
  <2> QED BY <2>2, <2>5 DEF Echoing, InputFields
<1>2. CASE \E text \in Texts : Inputs!UserTypes(text)
  BY <1>2 DEF Inputs!UserTypes, Echoing, InputFields
<1>3. CASE Inputs!RendererShows
  BY <1>3 DEF Inputs!RendererShows, Echoing
<1>4. CASE UNCHANGED state
  BY <1>4
<1> QED BY <1>1, <1>2, <1>3, <1>4 DEF Inputs!Next

-----------------------------------------------------------------------------
(* The registry of components.                                             *)
RegistryFields ==
  {"componentsDefinition", "sealed", "made", "handles", "unsent", "missed", "dropped"}

Values(table) == {table[n] : n \in DOMAIN table}

(* A handle is of a definition that is registered or was taken out.        *)
Handled(r) ==
  /\ DOMAIN r = RegistryFields
  /\ r.handles \subseteq Values(r.componentsDefinition) \cup r.dropped
  /\ r.unsent \subseteq r.handles
  /\ r.missed \subseteq r.dropped

(* A step of a scene that defines components and writes through handles.   *)
LEMMA RegistryStep ==
  ASSUME Handled(state), Registry!Next \/ UNCHANGED state
  PROVE  Handled(state')
<1> DEFINE table == state.componentsDefinition
<1>1. ASSUME NEW name, NEW kind, Registry!getComponentOrNull(ComponentNumber[name]) = {},
             state' = Registry!Defined(name, kind)
      PROVE  Handled(state')
  <2> DEFINE d == [name |-> name, kind |-> kind, serial |-> state.made + 1]
             n == ComponentNumber[name]
             grown == [k \in DOMAIN table \cup {n} |-> IF k = n THEN d ELSE table[k]]
  <2>1. n \notin DOMAIN table
    BY <1>1 DEF Registry!getComponentOrNull
  <2> HIDE DEF n
  <2>2. Values(table) \cup {d} \subseteq Values(grown)
    BY <2>1 DEF Values
  <2>3. /\ DOMAIN state' = RegistryFields /\ state'.handles = state.handles \cup {d}
        /\ state'.componentsDefinition = grown /\ state'.unsent = state.unsent
        /\ state'.missed = state.missed /\ state'.dropped = state.dropped
    BY <1>1 DEF Registry!Defined, Handled, RegistryFields, n
  <2> HIDE DEF d, grown, table
  <2> QED BY <2>2, <2>3 DEF Handled, table
<1>2. ASSUME NEW name \in ComponentNames, NEW kind \in ComponentKinds, Registry!defineComponent(name, kind)
      PROVE  Handled(state')
  <2>1. CASE Registry!getComponentOrNull(ComponentNumber[name]) = {}
    BY <1>1, <1>2, <2>1 DEF Registry!defineComponent
  <2>2. CASE Registry!getComponentOrNull(ComponentNumber[name]) # {}
    <3>1. Registry!getComponentOrNull(ComponentNumber[name]) \subseteq Values(table)
      BY DEF Registry!getComponentOrNull, Values
    <3> QED BY <1>2, <2>2, <3>1 DEF Registry!defineComponent, Handled, RegistryFields
  <2> QED BY <2>1, <2>2
<1>3. ASSUME NEW name \in ComponentNames, NEW kind \in ComponentKinds, Registry!registerComponentDefinition(name, kind)
      PROVE  Handled(state')
  BY <1>1, <1>3 DEF Registry!registerComponentDefinition
<1>4. ASSUME NEW n, Registry!removeComponentDefinition(n)
      PROVE  Handled(state')
  <2> DEFINE out  == Registry!getComponentOrNull(n)
             left == Registry!Restrict(table, DOMAIN table \ {n})
  <2>1. Values(table) \subseteq Values(left) \cup out
    BY DEF Registry!getComponentOrNull, Values, Registry!Restrict
  <2>2. /\ DOMAIN state' = RegistryFields /\ state'.handles = state.handles
        /\ state'.componentsDefinition = left /\ state'.unsent = state.unsent
        /\ state'.missed = state.missed /\ state'.dropped = state.dropped \cup out
    BY <1>4 DEF Registry!removeComponentDefinition, Handled, RegistryFields
  <2> HIDE DEF out, left, table
  <2> QED BY <2>1, <2>2 DEF Handled, table
<1>5. CASE Registry!seal
  BY <1>5 DEF Registry!seal, Handled, RegistryFields
<1>6. ASSUME NEW d \in state.handles, Registry!Write(d)
      PROVE  Handled(state')
  BY <1>6 DEF Registry!Write, Handled, RegistryFields
<1>7. CASE Registry!Tick
  <2>1. Registry!componentsIter = Values(table)
    BY DEF Registry!componentsIter, Registry!Range, Values
  <2> QED BY <1>7, <2>1 DEF Registry!Tick, Handled, RegistryFields
<1>8. CASE UNCHANGED state
  BY <1>8
<1> QED BY <1>2, <1>3, <1>4, <1>5, <1>6, <1>7, <1>8 DEF Registry!Next

-----------------------------------------------------------------------------
(* Materials.                                                              *)
MaterialFields == {"heap", "data", "dirty", "renderer", "flatMutable", "read"}

(* Two entities share no object: a write through an accessor changes one.  *)
Apart(data) ==
  \A e, f \in MaterialEntities : data[e] # 0 /\ data[e] = data[f] => e = f

MaterialsTyped(s) ==
  /\ DOMAIN s = MaterialFields
  /\ s.heap \in Seq(Materials!Material)
  /\ s.data \in [MaterialEntities -> 0 .. Len(s.heap)]
  /\ s.renderer \in [MaterialEntities -> Materials!Material]
  /\ s.flatMutable \subseteq [entity : MaterialEntities, first : Nat]

Faithful(s) ==
  /\ MaterialsTyped(s)
  /\ Apart(s.data)
  /\ \A e \in MaterialEntities \ s.dirty : s.renderer[e] = Materials!ValueOf(s, e)
  /\ \A r \in s.read : r.value = Materials!FlatValue(Materials!ValueOf(s, r.entity))

(* What the setters are handed and what accessors write are materials.     *)
LEMMA MaterialsAreTyped ==
  /\ Materials!Bare \in Materials!Material /\ Materials!Absent \in Materials!Material
  /\ \A kind \in {"pbr", "unlit"} : Materials!Materials(kind) \subseteq Materials!Material
BY DEF Materials!Bare, Materials!Absent, Materials!Material, Materials!Materials, Materials!Blank,
       Materials!Textures

LEMMA TextureStaysTyped ==
  ASSUME NEW m \in Materials!Material, NEW field \in TextureFields, NEW src \in TexturePaths
  PROVE  Materials!TextureWritten(m, field, src) \in Materials!Material
<1>1. Materials!Common(src) \in Materials!Textures
  BY DEF Materials!Textures
<1>2. CASE Materials!ensureTextureStructure(m, field)
  <2>1. m \in [kind : {"pbr", "unlit"}, textures : [TextureFields -> Materials!Textures],
              properties : [Materials!Properties -> 0..1]]
    BY <1>2 DEF Materials!Material, Materials!ensureTextureStructure, Materials!Bare,
                Materials!Absent, Materials!Blank
  <2>2. Materials!TextureWritten(m, field, src) = [m EXCEPT !.textures[field] = Materials!Common(src)]
    BY <1>2 DEF Materials!TextureWritten
  <2> QED BY <1>1, <2>1, <2>2 DEF Materials!Material
<1>3. CASE ~Materials!ensureTextureStructure(m, field)
  BY <1>3 DEF Materials!TextureWritten
<1> QED BY <1>2, <1>3

LEMMA PropertyStaysTyped ==
  ASSUME NEW m \in Materials!Material, NEW property \in Materials!Properties
  PROVE  Materials!PropertyWritten(m, property) \in Materials!Material
<1>1. CASE m.kind \in Materials!KindsWith(property)
  <2>1. m \in [kind : {"pbr", "unlit"}, textures : [TextureFields -> Materials!Textures],
              properties : [Materials!Properties -> 0..1]]
    BY <1>1 DEF Materials!Material, Materials!KindsWith, Materials!Properties, Materials!Bare,
                Materials!Absent, Materials!Blank
  <2>2. Materials!PropertyWritten(m, property) = [m EXCEPT !.properties[property] = 1 - @]
    BY <1>1 DEF Materials!PropertyWritten
  <2> QED BY <2>1, <2>2 DEF Materials!Material
<1>2. CASE m.kind \notin Materials!KindsWith(property)
  BY <1>2 DEF Materials!PropertyWritten
<1> QED BY <1>1, <1>2

(* An object more, for one entity, sent already or by the next tick.       *)
LEMMA NewObjectIsFaithful ==
  ASSUME NEW s, NEW t, NEW e \in MaterialEntities, NEW m \in Materials!Material, Faithful(s),
         DOMAIN t = MaterialFields, t.heap = Append(s.heap, m),
         t.data = [s.data EXCEPT ![e] = Len(s.heap) + 1], t.flatMutable = s.flatMutable,
         t.read = {},
         \/ t.dirty = s.dirty \cup {e} /\ t.renderer = s.renderer
         \/ t.dirty = s.dirty /\ t.renderer = [s.renderer EXCEPT ![e] = m]
  PROVE  Faithful(t)
<1>1. /\ s.heap \in Seq(Materials!Material) /\ s.data \in [MaterialEntities -> 0 .. Len(s.heap)]
      /\ s.renderer \in [MaterialEntities -> Materials!Material] /\ Len(s.heap) \in Nat
  BY DEF Faithful, MaterialsTyped
<1>2. /\ t.heap \in Seq(Materials!Material) /\ Len(t.heap) = Len(s.heap) + 1
      /\ t.heap[Len(s.heap) + 1] = m
      /\ \A i \in 1 .. Len(s.heap) : t.heap[i] = s.heap[i]
  BY <1>1, SMTT(20)
<1>3. MaterialsTyped(t)
  BY <1>1, <1>2 DEF Faithful, MaterialsTyped
<1>4. Apart(t.data)
  BY <1>1 DEF Faithful, Apart
<1>5. ASSUME NEW f \in MaterialEntities \ t.dirty
      PROVE  t.renderer[f] = Materials!ValueOf(t, f)
  <2>1. CASE f = e
    BY <1>1, <1>2, <2>1 DEF Materials!ValueOf
  <2>2. CASE f # e
    BY <1>1, <1>2, <2>2 DEF Materials!ValueOf, Faithful
  <2> QED BY <2>1, <2>2
<1> QED BY <1>3, <1>4, <1>5 DEF Faithful
(* The object of an entity that the next tick sends changes or goes.       *)
LEMMA DirtyIsFaithful ==
  ASSUME NEW s, NEW t, NEW e \in MaterialEntities, Faithful(s),
         DOMAIN t = MaterialFields, t.dirty = s.dirty \cup {e}, t.renderer = s.renderer,
         t.flatMutable \subseteq [entity : MaterialEntities, first : Nat], t.read = {},
         \/ t.data = [s.data EXCEPT ![e] = 0] /\ t.heap = s.heap
         \/ t.data = s.data /\ t.heap = s.heap
         \/ /\ t.data = s.data /\ s.data[e] # 0
            /\ \E m \in Materials!Material : t.heap = [s.heap EXCEPT ![s.data[e]] = m]
  PROVE  Faithful(t)
<1>1. /\ s.heap \in Seq(Materials!Material) /\ s.data \in [MaterialEntities -> 0 .. Len(s.heap)]
      /\ s.renderer \in [MaterialEntities -> Materials!Material] /\ Len(s.heap) \in Nat
  BY DEF Faithful, MaterialsTyped
<1>2. /\ t.heap \in Seq(Materials!Material) /\ Len(t.heap) = Len(s.heap)
      /\ \A f \in MaterialEntities \ {e} :
           s.data[f] # 0 => t.data[f] = s.data[f] /\ t.heap[t.data[f]] = s.heap[s.data[f]]
      /\ \A f \in MaterialEntities \ {e} : t.data[f] = s.data[f]
  <2>1. CASE t.heap = s.heap
    BY <1>1, <2>1
  <2>2. ASSUME t.data = s.data, s.data[e] # 0, NEW m \in Materials!Material,
               t.heap = [s.heap EXCEPT ![s.data[e]] = m]
        PROVE  /\ t.heap \in Seq(Materials!Material) /\ Len(t.heap) = Len(s.heap)
               /\ \A f \in MaterialEntities \ {e} :
                    s.data[f] # 0 => t.heap[t.data[f]] = s.heap[s.data[f]]
    <3>1. \A f \in MaterialEntities \ {e} : s.data[f] # 0 => s.data[f] # s.data[e]
      BY <2>2 DEF Faithful, Apart
    <3> QED BY <1>1, <2>2, <3>1
  <2> QED BY <1>1, <2>1, <2>2
<1>3. MaterialsTyped(t)
  BY <1>1, <1>2 DEF Faithful, MaterialsTyped
<1>4. Apart(t.data)
  BY <1>1 DEF Faithful, Apart
<1>5. ASSUME NEW f \in MaterialEntities \ t.dirty
      PROVE  t.renderer[f] = Materials!ValueOf(t, f)
  BY <1>1, <1>2 DEF Materials!ValueOf, Faithful
<1> QED BY <1>3, <1>4, <1>5 DEF Faithful

(* An accessor reads what the component holds.                             *)
LEMMA ReadIsFaithful ==
  ASSUME NEW h \in state.flatMutable, Faithful(state), Materials!ReadMutable(h)
  PROVE  Faithful(state')
<1> DEFINE t == state'
           e == h.entity
<1>1. e \in MaterialEntities
  BY DEF Faithful, MaterialsTyped
<1>2. /\ DOMAIN t = MaterialFields /\ t.heap = state.heap /\ t.data = state.data
      /\ t.renderer = state.renderer /\ t.flatMutable = state.flatMutable
      /\ t.dirty = state.dirty \cup {e} /\ state.data[e] # 0
      /\ t.read = {[entity |-> e, value |-> Materials!FlatValue(state.heap[state.data[e]])]}
  BY DEF Materials!ReadMutable, Materials!GetMaterial, Faithful, MaterialsTyped, MaterialFields
<1>3. \A f : Materials!ValueOf(t, f) = Materials!ValueOf(state, f)
  BY <1>2 DEF Materials!ValueOf
<1>4. Materials!ValueOf(state, e) = state.heap[state.data[e]]
  BY <1>2 DEF Materials!ValueOf
<1>5. \A r \in t.read : r.value = Materials!FlatValue(Materials!ValueOf(t, r.entity))
  BY <1>2, <1>3, <1>4
<1> HIDE DEF t, e
<1>6. Faithful(t)
  BY <1>2, <1>3, <1>5 DEF Faithful, MaterialsTyped
<1> QED BY <1>6 DEF t

(* The tick sends what is dirty, and nothing is any more.                  *)
LEMMA SentIsFaithful ==
  ASSUME Faithful(state), Materials!Tick
  PROVE  Faithful(state')
<1> DEFINE t == state'
<1>1. /\ DOMAIN t = MaterialFields /\ t.heap = state.heap /\ t.data = state.data
      /\ t.flatMutable = state.flatMutable /\ t.dirty = {} /\ t.read = {}
      /\ t.renderer = [e \in MaterialEntities |->
                         IF e \in state.dirty THEN Materials!ValueOf(state, e)
                         ELSE state.renderer[e]]
  BY DEF Materials!Tick, Materials!Becomes, Faithful, MaterialsTyped, MaterialFields
<1>2. \A f : Materials!ValueOf(t, f) = Materials!ValueOf(state, f)
  BY <1>1 DEF Materials!ValueOf
<1>3. \A e \in MaterialEntities : t.renderer[e] = Materials!ValueOf(t, e)
  BY <1>1, <1>2 DEF Faithful
<1>4. \A e \in MaterialEntities : Materials!ValueOf(state, e) \in Materials!Material
  <2>1. /\ state.heap \in Seq(Materials!Material)
        /\ state.data \in [MaterialEntities -> 0 .. Len(state.heap)] /\ Len(state.heap) \in Nat
    BY DEF Faithful, MaterialsTyped
  <2> QED BY <2>1, MaterialsAreTyped DEF Materials!ValueOf
<1>5. t.renderer \in [MaterialEntities -> Materials!Material]
  BY <1>1, <1>4 DEF Faithful, MaterialsTyped
<1> HIDE DEF t
<1>6. Faithful(t)
  BY <1>1, <1>3, <1>5 DEF Faithful, MaterialsTyped
<1> QED BY <1>6 DEF t

(* A step of a scene with materials.                                       *)
LEMMA MaterialStep ==
  ASSUME Faithful(state), Materials!Next \/ UNCHANGED state
  PROVE  Faithful(state')
<1> DEFINE t == state'
<1>0. /\ DOMAIN state = MaterialFields /\ state.heap \in Seq(Materials!Material)
      /\ state.data \in [MaterialEntities -> 0 .. Len(state.heap)] /\ Len(state.heap) \in Nat
      /\ state.flatMutable \subseteq [entity : MaterialEntities, first : Nat]
  BY DEF Faithful, MaterialsTyped
<1>1. ASSUME NEW e \in MaterialEntities, NEW m \in Materials!Material, Materials!Create(e, m)
      PROVE  Faithful(state')
  <2>1. /\ DOMAIN t = MaterialFields /\ t.heap = Append(state.heap, m)
        /\ t.data = [state.data EXCEPT ![e] = Len(state.heap) + 1]
        /\ t.flatMutable = state.flatMutable /\ t.read = {}
        /\ t.dirty = state.dirty \cup {e} /\ t.renderer = state.renderer
    BY <1>0, <1>1 DEF Materials!Create, Materials!Becomes, Materials!Put, Materials!New, MaterialFields
  <2> HIDE DEF t
  <2>2. Faithful(t)
    BY <2>1, NewObjectIsFaithful
  <2> QED BY <2>2 DEF t
<1>2. ASSUME NEW e \in MaterialEntities,
             Materials!setBasicMaterial(e) \/ Materials!setPbrMaterial(e) \/ Materials!createBare(e)
      PROVE  Faithful(state')
  BY <1>1, <1>2, MaterialsAreTyped
     DEF Materials!setBasicMaterial, Materials!setPbrMaterial, Materials!createBare
<1>3. ASSUME NEW e \in MaterialEntities, Materials!Received(e)
      PROVE  Faithful(state')
  <2>1. PICK m \in Materials!Material :
          state' = [state EXCEPT !.heap = Append(@, m), !.data[e] = Len(state.heap) + 1,
                                 !.renderer[e] = m, !.read = {}]
    BY <1>0, <1>3, MaterialsAreTyped
       DEF Materials!Received, Materials!Becomes, Materials!New, MaterialFields
  <2>2. /\ DOMAIN t = MaterialFields /\ t.heap = Append(state.heap, m)
        /\ t.data = [state.data EXCEPT ![e] = Len(state.heap) + 1]
        /\ t.flatMutable = state.flatMutable /\ t.read = {}
        /\ t.dirty = state.dirty /\ t.renderer = [state.renderer EXCEPT ![e] = m]
    BY <1>0, <2>1 DEF MaterialFields
  <2> HIDE DEF t
  <2>3. Faithful(t)
    BY <2>2, NewObjectIsFaithful
  <2> QED BY <2>3 DEF t
<1>4. ASSUME NEW e \in MaterialEntities, Materials!DeleteFrom(e) \/ Materials!getFlatMutable(e)
      PROVE  Faithful(state')
  <2>1. /\ DOMAIN t = MaterialFields /\ t.dirty = state.dirty \cup {e}
        /\ t.renderer = state.renderer /\ t.read = {}
        /\ t.flatMutable \subseteq [entity : MaterialEntities, first : Nat]
        /\ t.heap = state.heap
        /\ t.data = [state.data EXCEPT ![e] = 0] \/ t.data = state.data
    <3>1. CASE Materials!DeleteFrom(e)
      BY <1>0, <3>1 DEF Materials!DeleteFrom, Materials!Becomes, Materials!Put, MaterialFields
    <3>2. CASE Materials!getFlatMutable(e)
      <4>1. t.flatMutable = state.flatMutable \cup {[entity |-> e, first |-> state.data[e]]}
        BY <1>0, <3>2 DEF Materials!getFlatMutable, Materials!Becomes, MaterialFields
      <4>2. state.data[e] \in Nat
        BY <1>0
      <4>3. /\ DOMAIN t = MaterialFields /\ t.dirty = state.dirty \cup {e}
            /\ t.renderer = state.renderer /\ t.read = {}
            /\ t.heap = state.heap /\ t.data = state.data
        BY <1>0, <3>2 DEF Materials!getFlatMutable, Materials!Becomes, MaterialFields
      <4> QED BY <1>0, <4>1, <4>2, <4>3
    <3> QED BY <1>4, <3>1, <3>2
  <2> HIDE DEF t
  <2>2. Faithful(t)
    BY <2>1, DirtyIsFaithful
  <2> QED BY <2>2 DEF t
<1>5. ASSUME NEW h \in state.flatMutable, NEW m \in Materials!Material, Materials!Write(h, m)
      PROVE  Faithful(state')
  <2> DEFINE e == h.entity
  <2>1. e \in MaterialEntities
    BY <1>0
  <2>2. /\ DOMAIN t = MaterialFields /\ t.dirty = state.dirty \cup {e}
        /\ t.renderer = state.renderer /\ t.read = {} /\ t.flatMutable = state.flatMutable
        /\ t.data = state.data /\ state.data[e] # 0
        /\ t.heap = [state.heap EXCEPT ![state.data[e]] = m]
    BY <1>0, <1>5 DEF Materials!Write, Materials!GetMaterial, Materials!Becomes, MaterialFields
  <2> HIDE DEF t, e
  <2>3. Faithful(t)
    BY <1>0, <2>1, <2>2, DirtyIsFaithful
  <2> QED BY <2>3 DEF t
<1>6. ASSUME NEW h \in state.flatMutable, state.data[h.entity] # 0
      PROVE  Materials!Target(h) \in Materials!Material
  BY <1>0, <1>6 DEF Materials!Target, Materials!GetMaterial
<1>7. ASSUME NEW h \in state.flatMutable, NEW field \in TextureFields, NEW src \in TexturePaths,
             Materials!WriteTexture(h, field, src)
      PROVE  Faithful(state')
  <2>1. state.data[h.entity] # 0
    BY <1>7 DEF Materials!WriteTexture, Materials!Write
  <2>2. Materials!TextureWritten(Materials!Target(h), field, src) \in Materials!Material
    BY <1>6, <2>1, TextureStaysTyped
  <2> QED BY <1>5, <1>7, <2>2 DEF Materials!WriteTexture
<1>8. ASSUME NEW h \in state.flatMutable, NEW property \in Materials!Properties,
             Materials!WriteProperty(h, property)
      PROVE  Faithful(state')
  <2>1. state.data[h.entity] # 0
    BY <1>8 DEF Materials!WriteProperty, Materials!Write
  <2>2. Materials!PropertyWritten(Materials!Target(h), property) \in Materials!Material
    BY <1>6, <2>1, PropertyStaysTyped
  <2> QED BY <1>5, <1>8, <2>2 DEF Materials!WriteProperty
<1>9. CASE UNCHANGED state
  BY <1>9
<1> QED BY <1>2, <1>3, <1>4, <1>7, <1>8, <1>9, ReadIsFaithful, SentIsFaithful DEF Materials!Next

-----------------------------------------------------------------------------
(* Tweens.                                                                 *)
RowFields == {"Tween", "TweenState", "TweenSequence", "cache", "restart", "behind"}

TweenOrNone == Tweens!AnyTween \cup {Tweens!None}

RowTyped(r) ==
  /\ DOMAIN r = RowFields
  /\ r.Tween \in TweenOrNone /\ r.restart \in TweenOrNone
  /\ r.TweenState \in [status : {"none", "active", "completed"}, of : TweenOrNone]
  /\ \/ r.TweenSequence = Tweens!NoSequence
     \/ r.TweenSequence \in [sequence : Seq(Tweens!AnyTween), loop : Tweens!Loops]
  /\ r.cache \in [tween : TweenOrNone, completed : BOOLEAN, changed : BOOLEAN]
  /\ r.behind \in Nat

(* The report told as a completion is about the Tween that is there.       *)
Truthful(r) ==
  (r.cache.completed = TRUE /\ r.Tween = r.cache.tween)
    => r.TweenState.of = r.Tween /\ r.TweenState.status = "completed"

(* Between the systems of a tick.  A Tween is taken away only to come back,*)
(* and only a sequence makes the cache miss a change.                      *)
Kept(r) ==
  /\ RowTyped(r)
  /\ Truthful(r)
  /\ r.Tween = Tweens!None => r.cache = Tweens!NoCache
  /\ r.restart # Tweens!None => r.Tween = Tweens!None /\ r.TweenSequence # Tweens!NoSequence
  /\ r.TweenSequence = Tweens!NoSequence => r.cache.tween = r.Tween

(* Between ticks the renderer's lag is known.                              *)
Told(r) == Kept(r) /\ (r.behind = 0 <=> r.TweenState.of = r.Tween)

LEMMA NoneIsNoTween ==
  /\ Tweens!None \notin Tweens!AnyTween
  /\ \A n \in TweenNumbers : Tweens!tween(n, TRUE) \in Tweens!AnyTween
  /\ \A t \in Tweens!AnyTween : Tweens!backwardsTween(t) \in Tweens!AnyTween
BY CoreAssumption DEF Tweens!TweensAssumption, Tweens!None, Tweens!tween, Tweens!AnyTween,
                      Tweens!backwardsTween

(* The first system, on a row that the scene may have given a new Tween.   *)
LEMMA CacheIsKept ==
  ASSUME NEW r, RowTyped(r), Truthful(r),
         r.Tween = Tweens!None => r.cache = Tweens!NoCache,
         r.restart # Tweens!None => r.Tween = Tweens!None /\ r.TweenSequence # Tweens!NoSequence,
         r.Tween = r.cache.tween => r.TweenState.of = r.Tween,
         r.TweenSequence = Tweens!NoSequence => r.Tween # Tweens!None \/ r.cache.tween = r.Tween
  PROVE  Kept(Tweens!CacheOf(r)) /\ Tweens!CacheOf(r).behind = r.behind
<1> DEFINE done == Tweens!CacheOf(r)
           calm == [r EXCEPT !.cache.changed = FALSE]
<1>1. CASE r.Tween = Tweens!None
  BY <1>1 DEF Tweens!CacheOf, Kept
<1>2. CASE r.Tween # Tweens!None /\ Tweens!tweenChanged(r)
  <2>1. done = [r EXCEPT !.cache = [tween |-> r.Tween, completed |-> FALSE, changed |-> TRUE]]
    BY <1>2 DEF Tweens!CacheOf
  <2>2. /\ DOMAIN done = RowFields /\ done.Tween = r.Tween /\ done.restart = r.restart
        /\ done.TweenState = r.TweenState /\ done.TweenSequence = r.TweenSequence
        /\ done.behind = r.behind
        /\ done.cache = [tween |-> r.Tween, completed |-> FALSE, changed |-> TRUE]
    BY <2>1 DEF RowTyped, RowFields
  <2> HIDE DEF done
  <2> QED BY <1>2, <2>2 DEF Kept, RowTyped, Truthful, done
<1>3. ASSUME r.Tween # Tweens!None, ~Tweens!tweenChanged(r)
      PROVE  Kept(done) /\ done.behind = r.behind
  <2>1. /\ DOMAIN calm = RowFields /\ calm.Tween = r.Tween /\ calm.restart = r.restart
        /\ calm.TweenState = r.TweenState /\ calm.TweenSequence = r.TweenSequence
        /\ calm.behind = r.behind
        /\ calm.cache = [tween |-> r.cache.tween, completed |-> r.cache.completed, changed |-> FALSE]
    BY DEF RowTyped, RowFields
  <2>2. \/ done = calm
        \/ Tweens!isCompleted(calm) /\ done = [calm EXCEPT !.cache.completed = TRUE]
    BY <1>3 DEF Tweens!CacheOf
  <2> HIDE DEF calm
  <2>3. CASE done = calm
    <3>1. r.Tween = r.cache.tween
      BY <1>3 DEF Tweens!tweenChanged
    <3>2. RowTyped(done)
      <4>1. calm.cache \in [tween : TweenOrNone, completed : BOOLEAN, changed : BOOLEAN]
        BY <2>1 DEF RowTyped
      <4> HIDE DEF done
      <4> QED BY <2>1, <2>3, <4>1 DEF RowTyped
    <3> HIDE DEF done
    <3> QED BY <1>3, <2>1, <2>3, <3>1, <3>2 DEF Kept, Truthful, done
  <2>4. CASE Tweens!isCompleted(calm) /\ done = [calm EXCEPT !.cache.completed = TRUE]
    <3>1. /\ DOMAIN done = RowFields /\ done.Tween = r.Tween /\ done.restart = r.restart
          /\ done.TweenState = r.TweenState /\ done.TweenSequence = r.TweenSequence
          /\ done.behind = r.behind
          /\ done.cache.tween = r.cache.tween
          /\ done.cache \in [tween : TweenOrNone, completed : BOOLEAN, changed : BOOLEAN]
      <4>1. done = [calm EXCEPT !.cache = [@ EXCEPT !.completed = TRUE]]
        BY <2>4
      <4>2. done.cache = [calm.cache EXCEPT !.completed = TRUE]
        BY <2>1, <4>1 DEF RowFields
      <4> HIDE DEF done
      <4>3. calm.cache \in [tween : TweenOrNone, completed : BOOLEAN, changed : BOOLEAN]
        BY <2>1 DEF RowTyped
      <4> HIDE DEF done
      <4>4. /\ done.cache \in [tween : TweenOrNone, completed : BOOLEAN, changed : BOOLEAN]
            /\ done.cache.tween = calm.cache.tween
        BY <4>2, <4>3
      <4>5. done.cache.tween = r.cache.tween
        BY <2>1, <4>4
      <4> QED BY <2>1, <4>1, <4>4, <4>5 DEF RowFields
    <3>2. r.TweenState.status = "completed"
      BY <1>3, <2>1, <2>4 DEF Tweens!isCompleted, Tweens!tweenChanged
    <3> HIDE DEF done
    <3> QED BY <1>3, <3>1, <3>2 DEF Kept, RowTyped, Truthful, Tweens!tweenChanged, done
  <2> QED BY <2>2, <2>3, <2>4
<1> QED BY <1>1, <1>2, <1>3

(* The Tween comes back with nothing in the cache.                         *)
LEMMA RestartIsKept ==
  ASSUME NEW r, Kept(r)
  PROVE  /\ Kept(Tweens!Restart(r)) /\ Tweens!Restart(r).restart = Tweens!None
         /\ Tweens!Restart(r).TweenState = r.TweenState
         /\ Tweens!Restart(r).behind = r.behind
<1> DEFINE done == Tweens!Restart(r)
<1>1. CASE r.restart = Tweens!None
  BY <1>1 DEF Tweens!Restart
<1>2. CASE r.restart # Tweens!None
  <2>1. /\ DOMAIN done = RowFields /\ done.Tween = r.restart /\ done.restart = Tweens!None
        /\ done.TweenState = r.TweenState /\ done.TweenSequence = r.TweenSequence
        /\ done.behind = r.behind /\ done.cache = r.cache
    BY <1>2 DEF Tweens!Restart, Kept, RowTyped, RowFields
  <2>2. r.cache = Tweens!NoCache /\ r.TweenSequence # Tweens!NoSequence
    BY <1>2 DEF Kept
  <2>3. r.cache.completed = FALSE
    BY <2>2 DEF Tweens!NoCache
  <2>4. Tweens!None \in TweenOrNone
    BY DEF TweenOrNone
  <2> HIDE DEF done
  <2> QED BY <1>2, <2>1, <2>2, <2>3, <2>4 DEF Kept, RowTyped, Truthful, done
<1> QED BY <1>1, <1>2
(* The second system, on a row with nothing to come back: the next Tween   *)
(* starts with a cache that says it is not completed.                      *)
LEMMA GoesOnIsKept ==
  ASSUME NEW r, NEW s, NEW next \in Tweens!AnyTween, NEW done, Kept(r),
         r.restart = Tweens!None,
         DOMAIN s = RowFields, s.restart = r.restart, s.TweenState = r.TweenState,
         s.cache = r.cache, s.behind = r.behind,
         s.TweenSequence \in [sequence : Seq(Tweens!AnyTween), loop : Tweens!Loops],
         done = Tweens!GoesOn(s, next)
  PROVE  /\ Kept(done)
         /\ done.TweenState = r.TweenState /\ done.behind = r.behind
<1>1. /\ DOMAIN done = RowFields /\ done.Tween = next /\ done.restart = r.restart
      /\ done.TweenState = r.TweenState /\ done.TweenSequence = s.TweenSequence /\ done.behind = r.behind
      /\ done.cache = [r.cache EXCEPT !.completed = FALSE, !.changed = TRUE]
  BY DEF Tweens!GoesOn, Kept, RowTyped, RowFields
<1>2. /\ done.cache \in [tween : TweenOrNone, completed : BOOLEAN, changed : BOOLEAN]
      /\ done.cache.completed = FALSE
  BY <1>1 DEF Kept, RowTyped
<1>3. next \in TweenOrNone /\ next # Tweens!None
  BY NoneIsNoTween DEF TweenOrNone
<1>4. s.TweenSequence # Tweens!NoSequence
  <2>1. s.TweenSequence.loop \in Tweens!Loops
    OBVIOUS
  <2> QED BY <2>1 DEF Tweens!NoSequence, Tweens!Loops
<1>5. RowTyped(done)
  BY <1>1, <1>2, <1>3 DEF Kept, RowTyped
<1> QED BY <1>1, <1>2, <1>3, <1>4, <1>5 DEF Kept, Truthful

LEMMA SequenceIsKept ==
  ASSUME NEW r, Kept(r), r.restart = Tweens!None
  PROVE  /\ Kept(Tweens!SequenceOf(r))
         /\ Tweens!SequenceOf(r).TweenState = r.TweenState
         /\ Tweens!SequenceOf(r).behind = r.behind
<1> DEFINE done == Tweens!SequenceOf(r)
           todo == r.TweenSequence
           Result == Kept(done) /\ done.TweenState = r.TweenState /\ done.behind = r.behind
<1>1. CASE r.Tween = Tweens!None \/ ~r.cache.completed \/ todo = Tweens!NoSequence
  BY <1>1 DEF Tweens!SequenceOf
<1>2. ASSUME r.Tween # Tweens!None, r.cache.completed, todo # Tweens!NoSequence
      PROVE  Result
  <2>1. /\ DOMAIN r = RowFields
        /\ todo \in [sequence : Seq(Tweens!AnyTween), loop : Tweens!Loops]
        /\ r.Tween \in Tweens!AnyTween
    BY <1>2 DEF Kept, RowTyped, TweenOrNone
  <2>2. CASE todo.sequence # <<>>
    <3> DEFINE rest == IF todo.loop = "restart" THEN Append(Tail(todo.sequence), r.Tween)
                       ELSE Tail(todo.sequence)
               q    == [todo EXCEPT !.sequence = rest]
    <3>1. rest \in Seq(Tweens!AnyTween) /\ Head(todo.sequence) \in Tweens!AnyTween
      BY <2>1, <2>2
    <3> HIDE DEF rest
    <3>2. q \in [sequence : Seq(Tweens!AnyTween), loop : Tweens!Loops]
      BY <2>1, <3>1
    <3> DEFINE s == [r EXCEPT !.TweenSequence = q]
    <3>3. done = Tweens!GoesOn(s, Head(todo.sequence))
      <4>1. [r EXCEPT !.TweenSequence.sequence =
               IF todo.loop = "restart" THEN Append(Tail(@), r.Tween) ELSE Tail(@)]
            = [r EXCEPT !.TweenSequence = q]
        BY <2>1 DEF RowFields, rest
      <4> QED BY <1>2, <2>2, <4>1 DEF Tweens!SequenceOf
    <3>4. /\ DOMAIN s = RowFields /\ s.restart = r.restart /\ s.TweenState = r.TweenState
          /\ s.cache = r.cache /\ s.behind = r.behind /\ s.TweenSequence = q
      BY <2>1 DEF RowFields
    <3> HIDE DEF q, done, s
    <3> QED BY <1>2, <3>1, <3>2, <3>3, <3>4, GoesOnIsKept
  <2>3. CASE todo.sequence = <<>> /\ todo.loop = "yoyo"
    <3>1. done = Tweens!GoesOn(r, Tweens!backwardsTween(r.Tween))
      BY <1>2, <2>3 DEF Tweens!SequenceOf
    <3>2. Tweens!backwardsTween(r.Tween) \in Tweens!AnyTween
      BY <2>1, NoneIsNoTween
    <3> HIDE DEF done
    <3> QED BY <1>2, <2>1, <3>1, <3>2, GoesOnIsKept
  <2>4. CASE todo.sequence = <<>> /\ todo.loop = "restart"
    <3>1. done = [r EXCEPT !.Tween = Tweens!None, !.cache = Tweens!NoCache, !.restart = r.Tween]
      BY <1>2, <2>4 DEF Tweens!SequenceOf
    <3>2. /\ DOMAIN done = RowFields /\ done.Tween = Tweens!None /\ done.restart = r.Tween
          /\ done.TweenState = r.TweenState /\ done.TweenSequence = todo /\ done.behind = r.behind
          /\ done.cache = Tweens!NoCache
      BY <2>1, <3>1 DEF RowFields
    <3>3. /\ Tweens!NoCache \in [tween : TweenOrNone, completed : BOOLEAN, changed : BOOLEAN]
          /\ Tweens!NoCache.completed = FALSE /\ Tweens!None \in TweenOrNone
      BY DEF Tweens!NoCache, TweenOrNone
    <3> HIDE DEF done
    <3>4. RowTyped(done)
      BY <2>1, <3>2, <3>3 DEF RowTyped, Kept
    <3> QED BY <1>2, <3>2, <3>3, <3>4 DEF Kept, Truthful
  <2>5. CASE todo.sequence = <<>> /\ todo.loop \notin {"yoyo", "restart"}
    BY <1>2, <2>5 DEF Tweens!SequenceOf
  <2> QED BY <2>2, <2>3, <2>4, <2>5
<1> QED BY <1>1, <1>2
(* A row the systems may be run on: what the scene leaves of one that was  *)
(* told.                                                                   *)
Given(r) ==
  /\ RowTyped(r)
  /\ Truthful(r)
  /\ r.Tween = Tweens!None => r.cache = Tweens!NoCache
  /\ r.restart # Tweens!None => r.Tween = Tweens!None /\ r.TweenSequence # Tweens!NoSequence
  /\ r.Tween = r.cache.tween => r.TweenState.of = r.Tween
  /\ r.TweenSequence = Tweens!NoSequence => r.Tween # Tweens!None \/ r.cache.tween = r.Tween
  /\ r.behind = 0

LEMMA TickedIsTold ==
  ASSUME NEW r, Given(r)
  PROVE  Told(Tweens!Ticked(r))
<1> DEFINE cached == Tweens!CacheOf(r)
           back   == Tweens!Restart(cached)
           done   == Tweens!SequenceOf(back)
           after  == Tweens!Ticked(r)
<1>1. Kept(cached) /\ cached.behind = 0
  BY CacheIsKept DEF Given
<1> HIDE DEF cached
<1>2. Kept(back) /\ back.restart = Tweens!None /\ back.behind = 0
  BY <1>1, RestartIsKept
<1> HIDE DEF back
<1>3. Kept(done) /\ done.behind = 0
  BY <1>2, SequenceIsKept
<1> HIDE DEF done
<1>4. after = [done EXCEPT !.behind = IF done.Tween = done.TweenState.of THEN 0
                                      ELSE IF @ <= 0 THEN @ + 1 ELSE @]
  BY DEF Tweens!Ticked, cached, back, done
<1>5. /\ DOMAIN after = RowFields /\ after.Tween = done.Tween /\ after.restart = done.restart
      /\ after.TweenState = done.TweenState /\ after.TweenSequence = done.TweenSequence
      /\ after.cache = done.cache
      /\ after.behind = IF done.Tween = done.TweenState.of THEN 0 ELSE 1
  BY <1>3, <1>4 DEF Kept, RowTyped, RowFields
<1> HIDE DEF after
<1>6. Told(after)
  BY <1>3, <1>5 DEF Told, Kept, RowTyped, Truthful
<1> QED BY <1>6 DEF after

(* The scene sets a Tween only where there is no sequence, or a sequence.  *)
LEMMA SceneGives ==
  ASSUME NEW r, Told(r), r.behind = 0
  PROVE  Given(r) /\ \A s \in Tweens!SceneRows(r) : Given(s)
<1>1. Given(r)
  BY DEF Told, Kept, Given
<1>2. ASSUME NEW n \in TweenNumbers, r.TweenSequence = Tweens!NoSequence
      PROVE  Given(Tweens!setMode(r, n))
  <2> DEFINE s == Tweens!setMode(r, n)
             t == Tweens!tween(n, TRUE)
  <2>1. /\ DOMAIN s = RowFields /\ s.Tween = t /\ s.restart = r.restart
        /\ s.TweenState = r.TweenState /\ s.TweenSequence = r.TweenSequence
        /\ s.cache = r.cache /\ s.behind = r.behind
    BY DEF Tweens!setMode, Told, Kept, RowTyped, RowFields
  <2>2. t \in TweenOrNone /\ t # Tweens!None
    BY NoneIsNoTween DEF TweenOrNone
  <2> HIDE DEF s, t
  <2>3. RowTyped(s)
    BY <2>1, <2>2 DEF Told, Kept, RowTyped
  <2> QED BY <1>1, <1>2, <2>1, <2>2, <2>3 DEF Given, Told, Kept, Truthful, s
<1>3. ASSUME NEW q \in TweenSequences
      PROVE  Given([r EXCEPT !.TweenSequence = q])
  <2> DEFINE s == [r EXCEPT !.TweenSequence = q]
  <2>1. /\ DOMAIN s = RowFields /\ s.Tween = r.Tween /\ s.restart = r.restart
        /\ s.TweenState = r.TweenState /\ s.TweenSequence = q
        /\ s.cache = r.cache /\ s.behind = r.behind
    BY DEF Told, Kept, RowTyped, RowFields
  <2>2. /\ q \in [sequence : Seq(Tweens!AnyTween), loop : Tweens!Loops]
        /\ q # Tweens!NoSequence
    <3>1. q \in [sequence : Seq(Tweens!AnyTween), loop : Tweens!Loops]
      BY CoreAssumption DEF Tweens!TweensAssumption
    <3>2. q.loop \in Tweens!Loops
      BY <3>1
    <3> QED BY <3>1, <3>2 DEF Tweens!NoSequence, Tweens!Loops
  <2> HIDE DEF s
  <2>3. RowTyped(s)
    BY <2>1, <2>2 DEF Told, Kept, RowTyped
  <2> QED BY <1>1, <2>1, <2>2, <2>3 DEF Given, Truthful, s
<1>4. \A n \in Tweens!SetTweens(r) : Given(Tweens!setMode(r, n))
  BY <1>2 DEF Tweens!SetTweens
<1>5. \A n \in Tweens!SetTweens(r) : \A params :
        Given(Tweens!setMoveRotateScale(r, n, params))
  BY <1>1, <1>4 DEF Tweens!setMoveRotateScale
<1>6. ASSUME NEW s \in Tweens!SceneRows(r)
      PROVE  Given(s)
  BY <1>3, <1>4, <1>5 DEF Tweens!SceneRows
<1> QED BY <1>1, <1>6

(* Every row of the scene.                                                 *)
AllTold(t) ==
  /\ DOMAIN t = {"row", "calls"}
  /\ t.row = [e \in TweenEntities |-> t.row[e]]
  /\ \A e \in TweenEntities : Told(t.row[e])

(* A step of a scene with tweens.                                          *)
LEMMA TweenStep ==
  ASSUME AllTold(state), Tweens!Next \/ UNCHANGED state
  PROVE  AllTold(state')
<1>1. CASE Tweens!TweenTick
  <2>1. \A e \in TweenEntities : state.row[e].behind = 0
    BY <1>1 DEF Tweens!TweenTick, AllTold, Told, Kept, RowTyped
  <2>2. \A e \in TweenEntities :
          Given(state.row[e]) /\ \A s \in Tweens!SceneRows(state.row[e]) : Given(s)
    BY <2>1, SceneGives DEF AllTold
  <2>3. CASE state' = [state EXCEPT !.row = [e \in TweenEntities |-> Tweens!Ticked(@[e])]]
    <3>1. \A e \in TweenEntities : state'.row[e] = Tweens!Ticked(state.row[e])
      BY <2>3 DEF AllTold
    <3>2. DOMAIN state' = {"row", "calls"} /\ state'.row = [e \in TweenEntities |-> state'.row[e]]
      BY <2>3 DEF AllTold
    <3> QED BY <2>2, <3>1, <3>2, TickedIsTold DEF AllTold
  <2>4. ASSUME NEW e \in TweenEntities, NEW r \in Tweens!SceneRows(state.row[e]),
               state' = [row   |-> [f \in TweenEntities |->
                                      Tweens!Ticked(IF f = e THEN r ELSE state.row[f])],
                         calls |-> state.calls + 1]
        PROVE  AllTold(state')
    <3>1. \A f \in TweenEntities : \E s : Given(s) /\ state'.row[f] = Tweens!Ticked(s)
      BY <2>2, <2>4
    <3>2. DOMAIN state' = {"row", "calls"} /\ state'.row = [f \in TweenEntities |-> state'.row[f]]
      BY <2>4
    <3> QED BY <3>1, <3>2, TickedIsTold DEF AllTold
  <2> QED BY <1>1, <2>3, <2>4 DEF Tweens!TweenTick
<1>2. ASSUME NEW e \in TweenEntities, Tweens!RendererStarts(e) \/ Tweens!RendererCompletes(e)
      PROVE  AllTold(state')
  <2> DEFINE r == state.row[e]
             s == state'.row[e]
  <2>1. Told(r)
    BY DEF AllTold
  <2>2. /\ DOMAIN state' = {"row", "calls"}
        /\ state'.row = [f \in TweenEntities |-> state'.row[f]]
        /\ \A f \in TweenEntities \ {e} : state'.row[f] = state.row[f]
    BY <1>2 DEF AllTold, Tweens!RendererStarts, Tweens!RendererCompletes
  <2>3. CASE Tweens!RendererStarts(e)
    <3>1. r.TweenState.of # r.Tween
      BY <2>3 DEF Tweens!RendererStarts
    <3>2. s = [r EXCEPT !.behind = 0,
                 !.TweenState = [status |-> IF r.Tween = Tweens!None THEN "none" ELSE "active",
                                 of |-> r.Tween]]
      BY <2>3 DEF Tweens!RendererStarts, AllTold
    <3> DEFINE report == [status |-> IF r.Tween = Tweens!None THEN "none" ELSE "active",
                          of |-> r.Tween]
    <3>3. report.of = r.Tween /\ report \in [status : {"none", "active", "completed"}, of : TweenOrNone]
      BY <2>1 DEF Told, Kept, RowTyped
    <3> HIDE DEF report, r, s
    <3>4. /\ DOMAIN s = RowFields /\ s.Tween = r.Tween /\ s.restart = r.restart
          /\ s.TweenSequence = r.TweenSequence /\ s.cache = r.cache /\ s.behind = 0
          /\ s.TweenState = report
      BY <2>1, <3>2 DEF Told, Kept, RowTyped, RowFields, report
    <3>5. Told(s)
      BY <2>1, <3>1, <3>3, <3>4 DEF Told, Kept, RowTyped, Truthful
    <3> QED BY <2>2, <3>5 DEF AllTold, s
  <2>4. CASE Tweens!RendererCompletes(e)
    <3>1. s = [r EXCEPT !.TweenState.status = "completed"]
      BY <2>4 DEF Tweens!RendererCompletes, AllTold
    <3>2. /\ DOMAIN s = RowFields /\ s.Tween = r.Tween /\ s.restart = r.restart
          /\ s.TweenSequence = r.TweenSequence /\ s.cache = r.cache /\ s.behind = r.behind
          /\ s.TweenState = [r.TweenState EXCEPT !.status = "completed"]
      BY <2>1, <3>1 DEF Told, Kept, RowTyped, RowFields
    <3>3. r.TweenState \in [status : {"none", "active", "completed"}, of : TweenOrNone]
      BY <2>1 DEF Told, Kept, RowTyped
    <3> HIDE DEF r, s
    <3>4. /\ s.TweenState \in [status : {"none", "active", "completed"}, of : TweenOrNone]
          /\ s.TweenState.of = r.TweenState.of /\ s.TweenState.status = "completed"
      BY <3>2, <3>3
    <3>5. Told(s)
      BY <2>1, <3>2, <3>4 DEF Told, Kept, RowTyped, Truthful
    <3> QED BY <2>2, <3>5 DEF AllTold, s
  <2> QED BY <1>2, <2>3, <2>4
<1>3. CASE UNCHANGED state
  BY <1>3
<1> QED BY <1>1, <1>2, <1>3 DEF Tweens!Next

TweensInv == feature = "tweens" => AllTold(state)

(* A tween is told completed, and its sequence goes on, only for the very  *)
(* tween that the renderer has completed, whatever tweens and sequences    *)
(* the scene sets and whenever the renderer reports, as long as no Tween is*)
(* set while its entity has a sequence and the renderer is not behind by   *)
(* more than a tick.                                                       *)
THEOREM CompletionsAreTrue == CoreSpec => []CompletionIsOfThisTween
<1>1. CoreInit => TweensInv
  <2>1. Tweens!Init => AllTold(state)
    <3> DEFINE r == [Tween         |-> Tweens!None,
                     TweenState    |-> [status |-> "none", of |-> Tweens!None],
                     TweenSequence |-> Tweens!NoSequence,
                     cache         |-> Tweens!NoCache,
                     restart       |-> Tweens!None,
                     behind        |-> 0]
    <3>1. Tweens!None \in TweenOrNone
      BY DEF TweenOrNone
    <3>2. /\ Tweens!NoCache \in [tween : TweenOrNone, completed : BOOLEAN, changed : BOOLEAN]
          /\ Tweens!NoCache.completed = FALSE /\ Tweens!NoCache.tween = Tweens!None
      BY <3>1 DEF Tweens!NoCache
    <3>3. Told(r)
      BY <3>1, <3>2 DEF Told, Kept, RowTyped, Truthful, RowFields
    <3>4. Tweens!Init => state = [row |-> [e \in TweenEntities |-> r], calls |-> 0]
      BY DEF Tweens!Init, Tweens!TweensInit
    <3> HIDE DEF r
    <3> QED BY <3>3, <3>4 DEF AllTold
  <2> QED BY <2>1 DEF CoreInit, TweensInv
<1>2. TweensInv /\ [CoreNext]_coreVars => TweensInv'
  <2> SUFFICES ASSUME TweensInv, [CoreNext]_coreVars, feature' = "tweens"
               PROVE  AllTold(state')
    BY DEF TweensInv
  <2>1. feature = "tweens"
    BY FeatureStays
  <2>2. Tweens!Next \/ UNCHANGED state
    BY <2>1 DEF CoreNext, coreVars
  <2> QED BY <2>1, <2>2, TweenStep DEF TweensInv
<1>3. TweensInv => CompletionIsOfThisTween
  BY DEF TweensInv, CompletionIsOfThisTween, Tweens!CompletionIsOfThisTween, AllTold, Told, Kept,
         Truthful, RowTyped
<1> QED BY <1>1, <1>2, <1>3, PTL DEF CoreSpec
-----------------------------------------------------------------------------
(* Trigger areas.                                                          *)
AreaFields == {"callbacks", "last", "inside", "row", "stays"}
AreaEvent == [eventType : Triggers!EventTypes, trigger : Triggerers, timestamp : Nat]

(* The entry of an entity in use has consumed the row up to its last       *)
(* timestamp, and believes inside whom the events up to there let in.      *)
Believed(a) ==
  /\ a.last = -1 \/ a.last \in 1 .. Len(a.row)
  /\ a.inside = Triggers!Moved({}, a.row, 1 .. a.last)

TrueArea(a, es) ==
  /\ DOMAIN a = AreaFields
  /\ a.row \in Seq(AreaEvent)
  /\ \A i \in DOMAIN a.row : a.row[i].timestamp = i
  /\ a.callbacks = {} => a.last = -1 /\ a.inside = {}
  /\ IF es = "used" THEN Believed(a) ELSE a.row = <<>>

TrueAreas ==
  /\ state = [e \in AreaEntities |-> state[e]]
  /\ entityState = [e \in AreaEntities |-> entityState[e]]
  /\ \A e \in AreaEntities : TrueArea(state[e], entityState[e])

(* The cardinality of the module is the one facts are known of.            *)
LEMMA AreaCardinality ==
  ASSUME NEW S
  PROVE  Triggers!Cardinality(S) = Cardinality(S)
BY Zenon DEF Triggers!Cardinality, Cardinality

(* Who is inside after two spans, one after the other, is inside after both.*)
LEMMA MovedOn ==
  ASSUME NEW row, NEW k \in Nat, NEW n \in Nat, k <= n
  PROVE  Triggers!Moved(Triggers!Moved({}, row, 1 .. k), row, k + 1 .. n)
           = Triggers!Moved({}, row, 1 .. n)
<1> DEFINE early(t) == Triggers!Moves(row, 1 .. k, t)
           late(t)  == Triggers!Moves(row, k + 1 .. n, t)
           all(t)   == Triggers!Moves(row, 1 .. n, t)
<1>1. ASSUME NEW t
      PROVE  /\ all(t) = early(t) \cup late(t)
             /\ \A i \in early(t), j \in late(t) : i < j
             /\ early(t) \subseteq Int /\ late(t) \subseteq Int
  BY DEF Triggers!Moves
<1> HIDE DEF early, late, all
<1>2. ASSUME NEW t \in Triggerers, late(t) # {}
      PROVE  all(t) # {} /\ ((\E i \in all(t) : row[i].eventType = "enter" /\ \A j \in all(t) : j <= i)
               <=> \E i \in late(t) : row[i].eventType = "enter" /\ \A j \in late(t) : j <= i)
  <2>1. \A i \in all(t) : (\A j \in all(t) : j <= i) <=> (i \in late(t) /\ \A j \in late(t) : j <= i)
    BY <1>1, <1>2
  <2> QED BY <1>1, <1>2, <2>1
<1>3. ASSUME NEW t \in Triggerers, late(t) = {}
      PROVE  all(t) = early(t)
  BY <1>1, <1>3
<1> QED BY <1>2, <1>3, Zenon DEF Triggers!Moved, early, late, all

(* What is fresh begins after what was consumed.                           *)
LEMMA FreshIsNext ==
  ASSUME NEW a, TrueArea(a, "used"),
         NEW k, k = IF a.last < 0 THEN 0 ELSE a.last
  PROVE  /\ k \in Nat /\ k <= Len(a.row) /\ 1 .. a.last = 1 .. k
         /\ Triggers!StartIndex(a.row, a.last) = k + 1
<1>1. /\ a.row \in Seq(AreaEvent) /\ Len(a.row) \in Nat /\ DOMAIN a.row = 1 .. Len(a.row)
      /\ \A i \in 1 .. Len(a.row) : a.row[i].timestamp = i
      /\ a.last = -1 \/ a.last \in 1 .. Len(a.row)
  BY DEF TrueArea, Believed
<1>2. CASE a.last = -1
  BY <1>1, <1>2 DEF Triggers!StartIndex
<1>3. CASE a.last \in 1 .. Len(a.row)
  <2>1. Triggers!Consumed(a.row, a.last) = 1 .. a.last
    BY <1>1, <1>3 DEF Triggers!Consumed
  <2>2. Cardinality(1 .. a.last) = a.last
    BY <1>3, FS_Interval
  <2>3. a.row # <<>> /\ a.row[Len(a.row)].timestamp = Len(a.row) /\ ~(a.last < 0)
    BY <1>1, <1>3
  <2>4. Triggers!StartIndex(a.row, a.last) = a.last + 1
    <3>1. CASE a.last < Len(a.row)
      <4>1. a.row[Len(a.row)].timestamp > a.last
        BY <1>1, <1>3, <2>3, <3>1
      <4>2. Cardinality(Triggers!Consumed(a.row, a.last)) = a.last
        BY <2>1, <2>2
      <4>3. Triggers!StartIndex(a.row, a.last) = 1 + Cardinality(Triggers!Consumed(a.row, a.last))
        BY <2>3, <4>1, AreaCardinality DEF Triggers!StartIndex
      <4> QED BY <1>3, <4>2, <4>3
    <3>2. CASE a.last = Len(a.row)
      BY <1>1, <1>3, <2>3, <3>2 DEF Triggers!StartIndex
    <3> QED BY <1>1, <1>3, <3>1, <3>2
  <2> QED BY <1>1, <1>3, <2>4
<1> QED BY <1>1, <1>2, <1>3

LEMMA VisitIsTrue ==
  ASSUME NEW a, NEW es, TrueArea(a, es), NEW quits
  PROVE  TrueArea(Triggers!Visit(a, quits), es)
<1> DEFINE fresh  == Triggers!StartIndex(a.row, a.last) .. Len(a.row)
           inside == Triggers!Moved(a.inside, a.row, fresh)
           last   == IF fresh = {} THEN a.last ELSE a.row[Len(a.row)].timestamp
           v      == Triggers!Visit(a, quits)
<1>1. /\ DOMAIN v = AreaFields /\ v.row = a.row
      /\ \/ v.callbacks = a.callbacks /\ v.last = a.last /\ v.inside = a.inside
         \/ v.callbacks = {} /\ v.last = -1 /\ v.inside = {}
         \/ v.callbacks # {} /\ v.last = last /\ v.inside = inside
  BY DEF Triggers!Visit, Triggers!Forgotten, TrueArea, AreaFields
<1>2. ASSUME es = "used"
      PROVE  /\ last = -1 \/ last \in 1 .. Len(a.row)
             /\ inside = Triggers!Moved({}, a.row, 1 .. last)
  <2> DEFINE k == IF a.last < 0 THEN 0 ELSE a.last
  <2>1. /\ k \in Nat /\ k <= Len(a.row) /\ 1 .. a.last = 1 .. k
        /\ fresh = k + 1 .. Len(a.row)
    BY <1>2, FreshIsNext
  <2>2. /\ Len(a.row) \in Nat /\ DOMAIN a.row = 1 .. Len(a.row)
        /\ a.last = -1 \/ a.last \in 1 .. Len(a.row)
        /\ \A i \in 1 .. Len(a.row) : a.row[i].timestamp = i
        /\ a.inside = Triggers!Moved({}, a.row, 1 .. k)
    BY <1>2, <2>1 DEF TrueArea, Believed
  <2>3. inside = Triggers!Moved({}, a.row, 1 .. Len(a.row))
    BY <2>1, <2>2, MovedOn
  <2>4. CASE fresh = {}
    <3>1. k = Len(a.row)
      <4> HIDE DEF k
      <4>1. k + 1 .. Len(a.row) = {}
        BY <2>1, <2>4
      <4>2. Len(a.row) \in Nat
        BY <2>2
      <4> HIDE DEF fresh
      <4> QED BY <2>1, <4>1, <4>2
    <3>2. last = a.last
      BY <2>4
    <3> HIDE DEF last, inside, fresh
    <3> QED BY <2>1, <2>2, <2>3, <3>1, <3>2
  <2>5. CASE fresh # {}
    <3>1. Len(a.row) \in 1 .. Len(a.row)
      <4> HIDE DEF k
      <4>1. k + 1 .. Len(a.row) # {}
        BY <2>1, <2>5
      <4>2. Len(a.row) \in Nat
        BY <2>2
      <4> HIDE DEF fresh
      <4> QED BY <2>1, <4>1, <4>2
    <3>2. last = Len(a.row)
      BY <2>2, <2>5, <3>1
    <3> HIDE DEF last, inside, fresh
    <3> QED BY <2>2, <2>3, <3>1, <3>2
  <2> HIDE DEF last, inside, fresh
  <2> HIDE DEF last, inside, fresh
  <2> QED BY <2>4, <2>5
<1>3. Triggers!Moved({}, a.row, {}) = {}
  BY DEF Triggers!Moved, Triggers!Moves
<1> HIDE DEF v, last, inside, fresh
<1>4. ASSUME es = "used" PROVE TrueArea(v, es)
  <2>1. 1 .. -1 = {}
    OBVIOUS
  <2>2. Believed(v)
    <3>1. CASE v.callbacks = {} /\ v.last = -1 /\ v.inside = {}
      BY <1>3, <2>1, <1>1, <3>1 DEF Believed
    <3>2. CASE v.last = last /\ v.inside = inside
      BY <1>1, <1>2, <1>4, <3>2 DEF Believed
    <3> QED BY <1>1, <1>4, <3>1, <3>2 DEF TrueArea, Believed
  <2> QED BY <1>1, <1>4, <2>2 DEF TrueArea
<1>5. ASSUME es # "used" PROVE TrueArea(v, es)
  BY <1>1, <1>5 DEF TrueArea
<1>6. TrueArea(v, es)
  BY <1>4, <1>5
<1> QED BY <1>6 DEF v

LEMMA TriggerStep ==
  ASSUME TrueAreas, Triggers!Next \/ UNCHANGED <<state, entityState>>
  PROVE  TrueAreas'
<1>1. CASE Triggers!TriggerAreaResultSystem
  <2>1. PICK quits :
          /\ state' = [e \in AreaEntities |->
                         IF entityState[e] = "removed"
                         THEN [Triggers!Forgotten(state[e]) EXCEPT !.stays = {}]
                         ELSE Triggers!Visit(state[e], quits)]
          /\ entityState' = [e \in AreaEntities |-> IF entityState[e] = "removing"
                                                  THEN "removed" ELSE entityState[e]]
    BY <1>1 DEF Triggers!TriggerAreaResultSystem
  <2>2. ASSUME NEW e \in AreaEntities
        PROVE  TrueArea(state'[e], entityState'[e])
    <3>1. TrueArea(state[e], entityState[e])
      BY DEF TrueAreas
    <3>2. CASE entityState[e] = "removed"
      BY <2>1, <3>1, <3>2 DEF TrueArea, AreaFields, Triggers!Forgotten
    <3>3. CASE entityState[e] # "removed"
      <4>1. TrueArea(Triggers!Visit(state[e], quits), entityState[e])
        BY <3>1, VisitIsTrue
      <4>2. /\ state'[e] = Triggers!Visit(state[e], quits)
            /\ entityState'[e] = "used" <=> entityState[e] = "used"
        BY <2>1, <3>3
      <4> QED BY <4>1, <4>2 DEF TrueArea
    <3> QED BY <3>2, <3>3
  <2> QED BY <2>1, <2>2 DEF TrueAreas
<1>2. ASSUME NEW e \in AreaEntities,
             \/ Triggers!RemoveEntity(e)
             \/ \E type \in Triggers!EventTypes :
                  \/ Triggers!onTrigger(e, type) \/ Triggers!removeOnTrigger(e, type)
                  \/ \E t \in Triggerers : Triggers!RendererAppends(e, type, t)
      PROVE  TrueAreas'
  <2>1. /\ TrueArea(state[e], entityState[e])
        /\ state[e].row \in Seq(AreaEvent) /\ Len(state[e].row) \in Nat
        /\ DOMAIN state[e].row = 1 .. Len(state[e].row)
    BY DEF TrueAreas, TrueArea
  <2>2. /\ state' = [f \in AreaEntities |-> state'[f]]
        /\ entityState' = [f \in AreaEntities |-> entityState'[f]]
        /\ \A f \in AreaEntities \ {e} : state'[f] = state[f] /\ entityState'[f] = entityState[f]
    BY <1>2 DEF TrueAreas, Triggers!RemoveEntity, Triggers!onTrigger, Triggers!removeOnTrigger,
                Triggers!RendererAppends
  <2>3. TrueArea(state'[e], entityState'[e])
    <3>1. CASE Triggers!RemoveEntity(e)
      <4>1. entityState'[e] = "removing" /\ state'[e] = [state[e] EXCEPT !.row = <<>>]
        BY <3>1 DEF Triggers!RemoveEntity, TrueAreas
      <4>2. <<>> \in Seq(AreaEvent) /\ DOMAIN <<>> = {}
        OBVIOUS
      <4> QED BY <2>1, <4>1, <4>2 DEF TrueArea, AreaFields
    <3>2. ASSUME NEW type \in Triggers!EventTypes, Triggers!onTrigger(e, type)
          PROVE  TrueArea(state'[e], entityState'[e])
      <4>1. /\ entityState' = entityState
            /\ state'[e] = [state[e] EXCEPT !.callbacks = @ \cup {type}]
        BY <3>2 DEF Triggers!onTrigger, Triggers!addEntityCallback, TrueAreas
      <4> QED BY <2>1, <4>1 DEF TrueArea, AreaFields, Believed
    <3>3. ASSUME NEW type \in Triggers!EventTypes, Triggers!removeOnTrigger(e, type)
          PROVE  TrueArea(state'[e], entityState'[e])
      <4>1. entityState' = entityState
            /\ state'[e] = Triggers!removeEntityCallback(state[e], type)
        BY <3>3 DEF Triggers!removeOnTrigger, TrueAreas
      <4> DEFINE a == state[e]
                 b == state'[e]
      <4>2. /\ DOMAIN b = AreaFields /\ b.row = a.row
            /\ \/ b.callbacks # {} /\ b.last = a.last /\ b.inside = a.inside
               \/ b.callbacks = {} /\ b.last = a.last /\ b.inside = a.inside /\ a.callbacks = {}
               \/ b.callbacks = {} /\ b.last = -1 /\ b.inside = {}
        BY <2>1, <4>1 DEF Triggers!removeEntityCallback, Triggers!Forgotten, TrueArea, AreaFields
      <4>3. 1 .. -1 = {} /\ Triggers!Moved({}, a.row, {}) = {}
        BY DEF Triggers!Moved, Triggers!Moves
      <4> QED BY <2>1, <4>1, <4>2, <4>3 DEF TrueArea, Believed
    <3>4. ASSUME NEW type \in Triggers!EventTypes, NEW t \in Triggerers,
                 Triggers!RendererAppends(e, type, t)
          PROVE  TrueArea(state'[e], entityState'[e])
      <4> DEFINE a == state[e]
                 event == [eventType |-> type, trigger |-> t, timestamp |-> Len(a.row) + 1]
                 row == Append(a.row, event)
      <4>1. /\ entityState' = entityState /\ entityState[e] = "used"
            /\ state'[e] = [a EXCEPT !.row = row]
        BY <3>4 DEF Triggers!RendererAppends, TrueAreas
      <4>2. /\ row \in Seq(AreaEvent) /\ Len(row) = Len(a.row) + 1
            /\ \A i \in 1 .. Len(a.row) : row[i] = a.row[i]
            /\ row[Len(row)].timestamp = Len(row)
        BY <2>1 DEF AreaEvent
      <4> HIDE DEF row
      <4>3. \A i \in DOMAIN row : row[i].timestamp = i
        BY <2>1, <4>2 DEF TrueArea
      <4>4. Triggers!Moved({}, row, 1 .. a.last) = Triggers!Moved({}, a.row, 1 .. a.last)
        <5>1. \A i \in 1 .. a.last : row[i] = a.row[i]
          BY <2>1, <4>1, <4>2 DEF TrueArea, Believed
        <5>2. \A x : Triggers!Moves(row, 1 .. a.last, x) = Triggers!Moves(a.row, 1 .. a.last, x)
          BY <5>1 DEF Triggers!Moves
        <5>3. \A x : Triggers!Moves(a.row, 1 .. a.last, x) \subseteq 1 .. a.last
          BY DEF Triggers!Moves
        <5> QED BY <5>1, <5>2, <5>3 DEF Triggers!Moved
      <4>5. Believed(state'[e])
        <5>1. /\ state'[e].last = a.last /\ state'[e].inside = a.inside /\ state'[e].row = row
              /\ Believed(a)
          BY <2>1, <4>1 DEF TrueArea, AreaFields
        <5> QED BY <2>1, <4>2, <4>4, <5>1 DEF Believed
      <4>6. /\ DOMAIN state'[e] = AreaFields /\ state'[e].row = row
            /\ state'[e].callbacks = a.callbacks /\ state'[e].last = a.last
            /\ state'[e].inside = a.inside
        BY <2>1, <4>1 DEF TrueArea, AreaFields
      <4> QED BY <2>1, <4>1, <4>2, <4>3, <4>5, <4>6 DEF TrueArea
    <3> QED BY <1>2, <3>1, <3>2, <3>3, <3>4
  <2> QED BY <2>2, <2>3 DEF TrueAreas
<1>3. CASE UNCHANGED <<state, entityState>>
  BY <1>3 DEF TrueAreas
<1> QED BY <1>1, <1>2, <1>3 DEF Triggers!Next

LEMMA TrueAreasKnowInside ==
  ASSUME TrueAreas
  PROVE  Triggers!InsideIsTruth
<1> SUFFICES ASSUME NEW e \in AreaEntities, state[e].row # <<>>,
                    state[e].last = Len(state[e].row)
             PROVE  state[e].inside = Triggers!Truth(state[e].row)
  BY DEF Triggers!InsideIsTruth
<1>1. TrueArea(state[e], entityState[e])
  BY DEF TrueAreas
<1>2. Believed(state[e]) /\ DOMAIN state[e].row = 1 .. Len(state[e].row)
  BY <1>1 DEF TrueArea
<1> QED BY <1>2 DEF Believed, Triggers!Truth

LEMMA AreasStart ==
  ASSUME Triggers!Init
  PROVE  TrueAreas
<1>1. /\ state = [e \in AreaEntities |-> [callbacks |-> {}, last |-> -1, inside |-> {},
                                          row |-> <<>>, stays |-> {}]]
      /\ entityState = [e \in AreaEntities |-> "used"]
  BY DEF Triggers!Init, Triggers!AreasInit
<1>2. Triggers!Moved({}, <<>>, 1 .. -1) = {}
  BY DEF Triggers!Moved, Triggers!Moves
<1>3. TrueArea([callbacks |-> {}, last |-> -1, inside |-> {}, row |-> <<>>, stays |-> {}], "used")
  BY <1>2 DEF TrueArea, Believed, AreaFields
<1> QED BY <1>1, <1>3 DEF TrueAreas

-----------------------------------------------------------------------------
(* The force on the player.                                                *)
PhysicsFields ==
  {"forceSources", "repulsionSources", "durationTimers", "CombinedForce", "foreign",
   "position", "impulse", "impulseEventId", "lastWrittenTick", "tick", "inSystems",
   "rendererSawId", "applied", "felt", "settled", "calls"}

SumOfSources(p) ==
  IF DOMAIN p.forceSources = {} THEN <<>> ELSE <<Forces!Total(p.forceSources)>>

(* Every repulsion has the vector of where the player is, or none.         *)
Up2Date(p) ==
  \A s \in DOMAIN p.repulsionSources :
    {p.forceSources[x] : x \in {s} \cap DOMAIN p.forceSources}
      = Forces!computeRepulsionVector(p.repulsionSources[s], p.position)

(* Between ticks a foreign force stays only over constant ones.            *)
NotStale(p) ==
  p.foreign => DOMAIN p.forceSources # {} /\ DOMAIN p.repulsionSources = {}

(* What the helper's own functions keep.                                   *)
Summed(p) ==
  /\ DOMAIN p = PhysicsFields
  /\ p.foreign \in BOOLEAN /\ p.inSystems \in BOOLEAN /\ p.settled \in BOOLEAN
  /\ IF p.foreign THEN p.CombinedForce # <<>> ELSE p.CombinedForce = SumOfSources(p)

(* The impulses given and those the renderer has applied: within a tick,   *)
(* the ones given wait together under an id the renderer has not seen.     *)
ImpulseFields ==
  {"impulse", "impulseEventId", "lastWrittenTick", "tick", "rendererSawId", "applied", "felt"}

Waits(p) == p.impulse # <<>> /\ p.impulse[2] # p.rendererSawId

Felt(p) ==
  /\ p.applied \in Int /\ p.felt \in Int /\ p.tick \in Int /\ p.lastWrittenTick \in Int
  /\ p.impulseEventId \in Int /\ p.rendererSawId \in Int
  /\ p.lastWrittenTick <= p.tick /\ p.rendererSawId <= p.impulseEventId
  /\ p.impulse # <<>> => /\ p.impulse[1] \in Int /\ p.impulse[2] \in Int
                         /\ p.impulse[2] <= p.impulseEventId
  /\ Waits(p) => p.lastWrittenTick = p.tick /\ p.applied = p.felt + p.impulse[1]
  /\ ~Waits(p) => p.applied = p.felt

(* A written impulse of this tick waits, and none waits between ticks.     *)
FeltInTime(p) ==
  /\ p.inSystems => (p.impulse # <<>> /\ p.lastWrittenTick = p.tick => Waits(p))
  /\ ~p.inSystems => ~Waits(p)

TrueForce(p) ==
  /\ Summed(p)
  /\ ~p.inSystems => NotStale(p)
  /\ p.settled => ~p.inSystems /\ Up2Date(p)

(* The player is somewhere, and repulsions are those that scenes apply.    *)
Placed(p) ==
  p.position \in Int /\ \A s \in DOMAIN p.repulsionSources : p.repulsionSources[s] \in Repulsions

(* q is p after calls of the force helper.                                 *)
Helped(p, q) ==
  /\ Summed(q) /\ q.inSystems = p.inSystems /\ q.position = p.position
  /\ (NotStale(p) => NotStale(q)) /\ (Placed(p) => Placed(q))
  /\ \A f \in ImpulseFields : q[f] = p[f]

LEMMA RecalcIsSum ==
  ASSUME NEW p, DOMAIN p = PhysicsFields, p.inSystems \in BOOLEAN, p.settled \in BOOLEAN
  PROVE  LET q == Forces!recalcForce(p) IN
         /\ Summed(q) /\ q.foreign = FALSE
         /\ \A f \in PhysicsFields \ {"CombinedForce", "foreign"} : q[f] = p[f]
BY DEF Forces!recalcForce, PhysicsFields, Summed, SumOfSources

LEMMA RecalcHelps ==
  ASSUME NEW p, NEW q, Summed(p), DOMAIN q = PhysicsFields,
         q.inSystems = p.inSystems, q.position = p.position, q.settled = p.settled,
         Placed(p) => Placed(q), \A f \in ImpulseFields : q[f] = p[f]
  PROVE  Helped(p, Forces!recalcForce(q))
<1>1. q.inSystems \in BOOLEAN /\ q.settled \in BOOLEAN
  BY DEF Summed
<1> DEFINE r == Forces!recalcForce(q)
<1>2. /\ Summed(r) /\ r.foreign = FALSE
      /\ \A f \in PhysicsFields \ {"CombinedForce", "foreign"} : r[f] = q[f]
  BY <1>1, RecalcIsSum
<1> HIDE DEF r
<1>3. r.inSystems = q.inSystems /\ r.position = q.position
      /\ r.repulsionSources = q.repulsionSources
  BY <1>2 DEF PhysicsFields
<1>4. \A f \in ImpulseFields : r[f] = p[f]
  BY <1>2 DEF PhysicsFields, ImpulseFields
<1>5. Helped(p, r)
  BY <1>2, <1>3, <1>4 DEF Helped, NotStale, Placed
<1> QED BY <1>5 DEF r

LEMMA NothingHelps ==
  ASSUME NEW p, NEW q, Summed(p), DOMAIN q = PhysicsFields,
         \A f \in PhysicsFields \ {"durationTimers", "repulsionSources"} : q[f] = p[f],
         DOMAIN q.repulsionSources \subseteq DOMAIN p.repulsionSources,
         \A s \in DOMAIN q.repulsionSources : q.repulsionSources[s] = p.repulsionSources[s]
  PROVE  Helped(p, q)
BY DEF Helped, Summed, SumOfSources, NotStale, Placed, PhysicsFields, ImpulseFields

LEMMA RemovalHelps ==
  ASSUME NEW p, NEW gone, Summed(p)
  PROVE  Helped(p, Forces!removeForces(p, gone))
<1> DEFINE rest == [p EXCEPT !.repulsionSources = Forces!Without(@, gone),
                             !.durationTimers = Forces!Without(@, gone)]
           less == [rest EXCEPT !.forceSources = Forces!Without(@, gone)]
<1>1. /\ DOMAIN rest = PhysicsFields
      /\ \A f \in PhysicsFields \ {"durationTimers", "repulsionSources"} : rest[f] = p[f]
      /\ DOMAIN rest.repulsionSources \subseteq DOMAIN p.repulsionSources
      /\ \A s \in DOMAIN rest.repulsionSources : rest.repulsionSources[s] = p.repulsionSources[s]
  BY DEF Summed, PhysicsFields, Forces!Without
<1>2. /\ DOMAIN less = PhysicsFields
      /\ less.inSystems = p.inSystems /\ less.position = p.position /\ less.settled = p.settled
      /\ less.repulsionSources = rest.repulsionSources
      /\ \A f \in ImpulseFields : less[f] = p[f]
  BY DEF Summed, PhysicsFields, ImpulseFields
<1>3. Helped(p, rest)
  BY <1>1, NothingHelps
<1>4. Helped(p, Forces!recalcForce(less))
  BY <1>1, <1>2, RecalcHelps DEF Placed
<1> HIDE DEF rest, less
<1>5. Forces!removeForces(p, gone) \in {rest, Forces!recalcForce(less)}
  BY DEF Forces!removeForces, rest, less
<1> QED BY <1>3, <1>4, <1>5

LEMMA ForceHelps ==
  ASSUME NEW p, Summed(p), NEW s, NEW v, NEW ticks, NEW r
  PROVE  /\ Helped(p, Forces!applyForce(p, s, v))
         /\ Helped(p, Forces!scheduleForceDuration(Forces!applyForce(p, s, v), s, ticks))
         /\ r \in Repulsions => Helped(p, Forces!applyRepulsion(p, s, r))
<1>1. Helped(p, p)
  BY DEF Helped
<1>2. Helped(p, Forces!applyForce(p, s, v))
  <2> DEFINE q == [p EXCEPT !.forceSources = Forces!Set(@, s, v)]
  <2>1. DOMAIN q = PhysicsFields /\ q.inSystems = p.inSystems /\ q.position = p.position
        /\ q.settled = p.settled /\ q.repulsionSources = p.repulsionSources
        /\ \A f \in ImpulseFields : q[f] = p[f]
    BY DEF Summed, PhysicsFields, ImpulseFields
  <2> HIDE DEF q
  <2>2. Helped(p, Forces!recalcForce(q))
    BY <2>1, RecalcHelps DEF Placed
  <2> QED BY <1>1, <2>2 DEF Forces!applyForce, q
<1>3. ASSUME NEW q, Helped(p, q)
      PROVE  Helped(p, Forces!scheduleForceDuration(q, s, ticks))
  <2> DEFINE t == Forces!scheduleForceDuration(q, s, ticks)
  <2>1. /\ DOMAIN t = PhysicsFields
        /\ \A f \in PhysicsFields \ {"durationTimers"} : t[f] = q[f]
    BY <1>3 DEF Helped, Summed, PhysicsFields, Forces!scheduleForceDuration
  <2> HIDE DEF t
  <2>2. Helped(q, t)
    BY <1>3, <2>1, NothingHelps DEF Helped, PhysicsFields
  <2>3. Helped(p, t)
    BY <1>3, <2>2 DEF Helped
  <2> QED BY <2>3 DEF t
<1>4. ASSUME r \in Repulsions PROVE Helped(p, Forces!applyRepulsion(p, s, r))
  <2> DEFINE q == [p EXCEPT !.repulsionSources = Forces!Set(@, s, r)]
             w == Forces!WithRepulsions(q, {s})
  <2>1. DOMAIN w = PhysicsFields /\ w.inSystems = p.inSystems /\ w.position = p.position
        /\ w.settled = p.settled /\ w.repulsionSources = Forces!Set(p.repulsionSources, s, r)
        /\ \A f \in ImpulseFields : w[f] = p[f]
    BY DEF Summed, PhysicsFields, ImpulseFields, Forces!WithRepulsions
  <2> HIDE DEF w
  <2>2. Helped(p, Forces!recalcForce(w))
    BY <1>4, <2>1, RecalcHelps DEF Placed, Forces!Set
  <2> QED BY <2>2 DEF Forces!applyRepulsion, w
<1> QED BY <1>2, <1>3, <1>4

(* Impulses leave the force alone, and within a tick wait for the renderer.*)
LEMMA ImpulseWaits ==
  ASSUME NEW p, Summed(p), Felt(p), FeltInTime(p), p.inSystems, NEW v \in Int
  PROVE  LET q == Forces!applyImpulse(p, v) IN
         /\ Summed(q) /\ Felt(q) /\ FeltInTime(q) /\ q.inSystems
         /\ Placed(p) => Placed(q)
<1> DEFINE more == p.lastWrittenTick = p.tick /\ p.impulse # <<>>
           q    == Forces!applyImpulse(p, v)
<1>1. CASE v = 0
  BY <1>1 DEF Forces!applyImpulse
<1>2. CASE v # 0
  <2>1. /\ DOMAIN q = PhysicsFields
        /\ \A f \in {"forceSources", "CombinedForce", "foreign", "settled", "inSystems",
                     "position", "repulsionSources", "tick", "rendererSawId", "felt"} : q[f] = p[f]
        /\ q.lastWrittenTick = p.tick /\ q.applied = p.applied + v
        /\ q.impulseEventId = IF more THEN p.impulseEventId ELSE p.impulseEventId + 1
        /\ q.impulse = IF more THEN <<p.impulse[1] + v, p.impulse[2]>>
                       ELSE <<v, p.impulseEventId + 1>>
    BY <1>2 DEF Forces!applyImpulse, Summed, PhysicsFields
  <2> HIDE DEF q
  <2>2. Summed(q) /\ q.inSystems /\ (Placed(p) => Placed(q))
    BY <2>1 DEF Summed, SumOfSources, Placed
  <2>3. q.felt = p.felt /\ q.tick = p.tick /\ q.rendererSawId = p.rendererSawId
    BY <2>1
  <2>4. ASSUME more PROVE Felt(q) /\ FeltInTime(q)
    <3>1. Waits(p) /\ q.impulse # <<>> /\ q.impulse[1] = p.impulse[1] + v
          /\ q.impulse[2] = p.impulse[2]
      BY <2>1, <2>4 DEF FeltInTime
    <3>2. Waits(q)
      BY <2>3, <3>1 DEF Waits
    <3> QED BY <2>1, <2>2, <2>3, <2>4, <3>1, <3>2 DEF Felt, FeltInTime
  <2>5. ASSUME ~more PROVE Felt(q) /\ FeltInTime(q)
    <3>1. ~Waits(p)
      BY <2>5 DEF Felt, Waits
    <3>2. q.impulse # <<>> /\ q.impulse[1] = v /\ q.impulse[2] = p.impulseEventId + 1
      BY <2>1, <2>5
    <3>3. Waits(q)
      BY <2>3, <3>2 DEF Felt, Waits
    <3> QED BY <2>1, <2>2, <2>3, <2>5, <3>1, <3>2, <3>3 DEF Felt, FeltInTime
  <2>6. Summed(q) /\ Felt(q) /\ FeltInTime(q) /\ q.inSystems /\ (Placed(p) => Placed(q))
    BY <2>2, <2>4, <2>5
  <2> QED BY <2>6 DEF q
<1> QED BY <1>1, <1>2

(* A repulsion is one vector or none.                                      *)
LEMMA RepulsionIsOneVector ==
  ASSUME NEW r \in Repulsions, NEW position \in Int
  PROVE  \/ Forces!computeRepulsionVector(r, position) = {}
         \/ \E v \in Int : Forces!computeRepulsionVector(r, position) = {v}
<1>1. r.magnitude \in Int
  BY CoreAssumption DEF Forces!ForcesAssumption
<1> QED BY <1>1 DEF Forces!computeRepulsionVector

(* The background system brings everything up to date.                     *)
LEMMA BackgroundIsUp2Date ==
  ASSUME NEW p, Summed(p), Placed(p)
  PROVE  LET q == Forces!BackgroundSystem(p) IN
         /\ Summed(q) /\ NotStale(q) /\ Up2Date(q) /\ Placed(q)
         /\ \A f \in ImpulseFields : q[f] = p[f]
<1> DEFINE of == DOMAIN p.repulsionSources
           w == Forces!WithRepulsions(p, of)
           r == Forces!recalcForce(w)
<1>1. CASE of # {}
  <2>1. /\ DOMAIN w = PhysicsFields /\ w.inSystems \in BOOLEAN /\ w.settled \in BOOLEAN
        /\ w.repulsionSources = p.repulsionSources /\ w.position = p.position
        /\ w.forceSources = [s \in (DOMAIN p.forceSources \ of) \cup Forces!Reaching(p, of) |->
                               IF s \in Forces!Reaching(p, of) THEN Forces!Repelled(p, s)
                               ELSE p.forceSources[s]]
        /\ \A f \in ImpulseFields : w[f] = p[f]
    BY DEF Summed, PhysicsFields, ImpulseFields, Forces!WithRepulsions
  <2> HIDE DEF w
  <2>2. /\ Summed(r) /\ r.foreign = FALSE
        /\ \A f \in PhysicsFields \ {"CombinedForce", "foreign"} : r[f] = w[f]
    BY <2>1, RecalcIsSum
  <2>3. /\ r.repulsionSources = p.repulsionSources /\ r.position = p.position
        /\ r.forceSources = w.forceSources /\ \A f \in ImpulseFields : r[f] = p[f]
    BY <2>1, <2>2 DEF PhysicsFields, ImpulseFields
  <2> HIDE DEF r
  <2>4. ASSUME NEW s \in of
        PROVE  {r.forceSources[x] : x \in {s} \cap DOMAIN r.forceSources}
                 = Forces!computeRepulsionVector(p.repulsionSources[s], p.position)
    <3> DEFINE vector == Forces!computeRepulsionVector(p.repulsionSources[s], p.position)
    <3>1. CASE vector = {}
      <4>1. s \notin DOMAIN r.forceSources
        BY <2>1, <2>3, <3>1 DEF Forces!Reaching
      <4> QED BY <3>1, <4>1
    <3>2. ASSUME NEW y, vector = {y}
          PROVE  {r.forceSources[x] : x \in {s} \cap DOMAIN r.forceSources} = vector
      <4>1. Forces!Repelled(p, s) = y
        BY <3>2 DEF Forces!Repelled
      <4>2. s \in Forces!Reaching(p, of)
        BY <2>4, <3>2 DEF Forces!Reaching
      <4>3. s \in DOMAIN r.forceSources /\ r.forceSources[s] = y
        BY <2>1, <2>3, <4>1, <4>2
      <4> HIDE DEF vector
      <4> QED BY <3>2, <4>3
    <3>3. vector = {} \/ \E v : vector = {v}
      BY <2>4, RepulsionIsOneVector DEF Placed
    <3> QED BY <3>1, <3>2, <3>3
  <2>5. Up2Date(r) /\ Placed(r)
    BY <2>3, <2>4 DEF Up2Date, Placed
  <2> QED BY <1>1, <2>2, <2>3, <2>5 DEF NotStale, Forces!BackgroundSystem, r, w
<1>2. CASE of = {} /\ DOMAIN p.forceSources = {} /\ p.CombinedForce # <<>>
  <2> DEFINE q == [p EXCEPT !.CombinedForce = <<>>, !.foreign = FALSE]
  <2>1. /\ DOMAIN q = PhysicsFields /\ q.foreign = FALSE /\ q.CombinedForce = <<>>
        /\ \A f \in PhysicsFields \ {"CombinedForce", "foreign"} : q[f] = p[f]
    BY DEF Summed, PhysicsFields
  <2> HIDE DEF q
  <2>2. Summed(q) /\ NotStale(q) /\ Up2Date(q) /\ Placed(q)
        /\ \A f \in ImpulseFields : q[f] = p[f]
    BY <1>2, <2>1 DEF Placed, Summed, NotStale, Up2Date, SumOfSources, PhysicsFields, ImpulseFields
  <2> QED BY <1>2, <2>2 DEF Forces!BackgroundSystem, q
<1>3. CASE of = {} /\ ~(DOMAIN p.forceSources = {} /\ p.CombinedForce # <<>>)
  <2>1. NotStale(p) /\ Up2Date(p)
    BY <1>3 DEF NotStale, Up2Date, Summed, SumOfSources
  <2> QED BY <1>3, <2>1 DEF Forces!BackgroundSystem
<1> QED BY <1>1, <1>2, <1>3

ForceInv == TrueForce(state) /\ Placed(state) /\ Felt(state) /\ FeltInTime(state)

(* A call of the scene to the force helper, and one to the impulse helper. *)
LEMMA CallKeepsForce ==
  ASSUME ForceInv, NEW q, Helped(state, q) \/ (state.inSystems /\ Summed(q) /\ Felt(q)
                                              /\ FeltInTime(q) /\ q.inSystems /\ Placed(q)),
         Forces!SceneCall(q)
  PROVE  ForceInv'
<1>1. state' = [q EXCEPT !.calls = q.calls + 1, !.settled = FALSE]
  BY DEF Forces!SceneCall
<1>2. Summed(q) /\ Placed(q)
  BY DEF ForceInv, Helped
<1>3. /\ DOMAIN state' = PhysicsFields /\ state'.settled = FALSE
      /\ \A f \in PhysicsFields \ {"calls", "settled"} : state'[f] = q[f]
  BY <1>1, <1>2 DEF Summed, PhysicsFields
<1>4. Summed(state') /\ Placed(state') /\ (NotStale(q) => NotStale(state'))
  BY <1>2, <1>3 DEF Summed, SumOfSources, Placed, NotStale, PhysicsFields
<1>5. Felt(q) /\ FeltInTime(q) /\ (~q.inSystems => NotStale(q))
  <2>1. CASE Helped(state, q)
    BY <2>1 DEF ForceInv, TrueForce, Helped, Felt, FeltInTime, Waits, ImpulseFields
  <2> QED BY <2>1
<1>6. Felt(state') /\ FeltInTime(state')
  BY <1>3, <1>5 DEF Felt, FeltInTime, Waits, PhysicsFields
<1>7. state'.inSystems = q.inSystems
  BY <1>3 DEF PhysicsFields
<1> QED BY <1>3, <1>4, <1>5, <1>6, <1>7 DEF ForceInv, TrueForce

LEMMA TickStartKeepsForce ==
  ASSUME ForceInv, NEW position \in Positions, NEW others \in BOOLEAN,
         Forces!TickStarts(position, others)
  PROVE  ForceInv'
<1>1. /\ DOMAIN state' = PhysicsFields
      /\ \A f \in PhysicsFields \ {"position", "tick", "inSystems", "CombinedForce", "foreign",
                                   "settled"} : state'[f] = state[f]
      /\ state'.position = position /\ state'.tick = state.tick + 1 /\ state'.inSystems
      /\ state'.CombinedForce = IF others THEN <<99>> ELSE state.CombinedForce
      /\ state'.foreign = (state.foreign \/ others) /\ state'.settled = FALSE
      /\ ~state.inSystems
  BY DEF Forces!TickStarts, ForceInv, TrueForce, Summed, PhysicsFields
<1>2. position \in Int
  BY CoreAssumption DEF Forces!ForcesAssumption
<1>3. TrueForce(state') /\ Placed(state')
  <2>1. state'.foreign \in BOOLEAN /\ state'.inSystems \in BOOLEAN /\ state'.settled \in BOOLEAN
    BY <1>1 DEF Forces!TickStarts, ForceInv, TrueForce, Summed
  <2>2. IF state'.foreign THEN state'.CombinedForce # <<>>
        ELSE state'.CombinedForce = SumOfSources(state')
    BY <1>1 DEF ForceInv, TrueForce, Summed, SumOfSources, PhysicsFields
  <2>3. Summed(state')
    BY <1>1, <2>1, <2>2 DEF Summed
  <2> QED BY <1>1, <1>2, <2>3 DEF ForceInv, TrueForce, Placed, PhysicsFields
<1>4. Felt(state') /\ FeltInTime(state')
  BY <1>1 DEF ForceInv, Felt, FeltInTime, Waits, PhysicsFields
<1> QED BY <1>3, <1>4 DEF ForceInv

LEMMA TickEndKeepsForce ==
  ASSUME ForceInv, Forces!TickEnds
  PROVE  ForceInv'
<1> DEFINE left == [state EXCEPT !.durationTimers = [s \in DOMAIN @ |-> @[s] - 1]]
           due  == {s \in DOMAIN state.durationTimers : state.durationTimers[s] = 1}
           told == Forces!TimersSystem(state)
           p    == Forces!BackgroundSystem(told)
           news == p.impulse # <<>> /\ p.impulse[2] # p.rendererSawId
<1>1. Summed(told) /\ Placed(told) /\ \A f \in ImpulseFields : told[f] = state[f]
  <2>1. /\ DOMAIN left = PhysicsFields
        /\ \A f \in PhysicsFields \ {"durationTimers"} : left[f] = state[f]
    BY DEF ForceInv, TrueForce, Summed, PhysicsFields
  <2> HIDE DEF left
  <2>2. Helped(state, left)
    BY <2>1, NothingHelps DEF ForceInv, TrueForce, PhysicsFields
  <2>3. Helped(left, Forces!removeForces(left, due))
    BY <2>2, RemovalHelps DEF Helped
  <2>4. told = Forces!removeForces(left, due)
    BY DEF Forces!TimersSystem, left
  <2> QED BY <2>2, <2>3, <2>4 DEF Helped, ForceInv
<1> HIDE DEF told
<1>2. /\ Summed(p) /\ NotStale(p) /\ Up2Date(p) /\ Placed(p)
      /\ \A f \in ImpulseFields : p[f] = state[f]
  BY <1>1, BackgroundIsUp2Date
<1>3. state' = [p EXCEPT !.inSystems = FALSE, !.settled = TRUE,
                         !.felt = IF news THEN @ + p.impulse[1] ELSE @,
                         !.rendererSawId = IF news THEN p.impulse[2] ELSE @]
      /\ state.inSystems
  BY Zenon DEF Forces!TickEnds, told
<1> HIDE DEF p
<1>4. /\ DOMAIN state' = PhysicsFields
      /\ \A f \in PhysicsFields \ {"inSystems", "settled", "felt", "rendererSawId"} : state'[f] = p[f]
      /\ state'.inSystems = FALSE /\ state'.settled = TRUE
      /\ state'.felt = IF news THEN p.felt + p.impulse[1] ELSE p.felt
      /\ state'.rendererSawId = IF news THEN p.impulse[2] ELSE p.rendererSawId
  BY <1>2, <1>3 DEF Summed, PhysicsFields
<1>5. /\ Summed(state') /\ NotStale(state') /\ Up2Date(state') /\ Placed(state')
  <2>1. /\ state'.CombinedForce = p.CombinedForce /\ state'.foreign = p.foreign
        /\ state'.forceSources = p.forceSources /\ state'.position = p.position
        /\ state'.repulsionSources = p.repulsionSources
    BY <1>4 DEF PhysicsFields
  <2>2. Summed(state')
    BY <1>2, <1>4, <2>1 DEF Summed, SumOfSources
  <2>3. Up2Date(state')
    BY <1>2, <2>1 DEF Up2Date
  <2> QED BY <1>2, <2>1, <2>2, <2>3 DEF NotStale, Placed
<1>6. Felt(p) /\ news = Waits(p)
  BY <1>2 DEF ForceInv, Felt, Waits, ImpulseFields
<1>7. /\ state'.impulse = p.impulse /\ state'.applied = p.applied /\ state'.tick = p.tick
      /\ state'.lastWrittenTick = p.lastWrittenTick
      /\ state'.impulseEventId = p.impulseEventId
  BY <1>4 DEF PhysicsFields
<1> HIDE DEF news
<1>8. Felt(state') /\ ~Waits(state')
  BY <1>4, <1>6, <1>7 DEF Felt, Waits
<1> QED BY <1>4, <1>5, <1>8 DEF ForceInv, TrueForce, FeltInTime

LEMMA ForceStep ==
  ASSUME ForceInv, Forces!Next \/ UNCHANGED state
  PROVE  ForceInv'
<1> USE DEF Forces!MayGiveImpulse
<1>0. Summed(state)
  BY DEF ForceInv, TrueForce
<1>1. ASSUME NEW position \in Positions, NEW others \in BOOLEAN,
             Forces!TickStarts(position, others)
      PROVE  ForceInv'
  BY <1>1, TickStartKeepsForce
<1>2. CASE Forces!TickEnds
  BY <1>2, TickEndKeepsForce
<1>3. ASSUME NEW s \in ForceSources, Forces!removeForceFromPlayer(s)
      PROVE  ForceInv'
  BY <1>0, <1>3, RemovalHelps, CallKeepsForce DEF Forces!removeForceFromPlayer
<1>4. ASSUME NEW s \in ForceSources, NEW v \in Vectors, Forces!applyForceToPlayer(s, v)
      PROVE  ForceInv'
  BY <1>0, <1>4, ForceHelps, CallKeepsForce DEF Forces!applyForceToPlayer
<1>8. ASSUME NEW s \in ForceSources, NEW v \in Vectors, NEW d \in Durations,
             Forces!applyForceToPlayerForDuration(s, d, v)
      PROVE  ForceInv'
  BY <1>0, <1>8, ForceHelps, CallKeepsForce DEF Forces!applyForceToPlayerForDuration
<1>9. ASSUME NEW s \in ForceSources, NEW r \in Repulsions,
             Forces!applyRepulsionForceToPlayer(s, r)
      PROVE  ForceInv'
  BY <1>0, <1>9, ForceHelps, CallKeepsForce DEF Forces!applyRepulsionForceToPlayer
<1>5. ASSUME NEW v \in Vectors, Forces!applyImpulseToPlayer(v)
      PROVE  ForceInv'
  <2>1. v \in Int /\ state.inSystems
    BY <1>5, CoreAssumption DEF Forces!ForcesAssumption, Forces!applyImpulseToPlayer
  <2> DEFINE q == Forces!applyImpulse(state, v)
  <2>2. Summed(q) /\ Felt(q) /\ FeltInTime(q) /\ q.inSystems /\ Placed(q)
    BY <1>0, <2>1, ImpulseWaits DEF ForceInv
  <2> QED BY <1>5, <2>1, <2>2, CallKeepsForce DEF Forces!applyImpulseToPlayer
<1>6. ASSUME NEW r \in Repulsions, Forces!applyKnockbackToPlayer(r)
      PROVE  ForceInv'
  <2> DEFINE q == Forces!applyKnockback(state, r)
  <2>1. \/ q = state
        \/ \E v \in Int : q = Forces!applyImpulse(state, v)
    <3>1. \/ Forces!computeRepulsionVector(r, state.position) = {}
          \/ \E v \in Int : Forces!computeRepulsionVector(r, state.position) = {v}
      BY RepulsionIsOneVector DEF ForceInv, Placed
    <3> QED BY <3>1 DEF Forces!applyKnockback
  <2>2. state.inSystems
    BY <1>6 DEF Forces!applyKnockbackToPlayer
  <2> HIDE DEF q
  <2>3. Summed(q) /\ Felt(q) /\ FeltInTime(q) /\ q.inSystems /\ Placed(q)
    BY <1>0, <2>1, <2>2, ImpulseWaits DEF ForceInv
  <2> QED BY <1>6, <2>2, <2>3, CallKeepsForce DEF Forces!applyKnockbackToPlayer, q
<1>7. CASE UNCHANGED state
  BY <1>7 DEF ForceInv, TrueForce, Summed, SumOfSources, NotStale, Up2Date, Placed, Felt,
              FeltInTime, Waits
<1> QED BY <1>1, <1>2, <1>3, <1>4, <1>5, <1>6, <1>7, <1>8, <1>9 DEF Forces!Next

(* What holds of the force and the impulses.                               *)
LEMMA ForceIsTrue ==
  ASSUME ForceInv
  PROVE  Forces!ForceIsSumOfSources /\ Forces!EveryImpulseIsFelt
BY DEF ForceInv, TrueForce, Summed, SumOfSources, NotStale, Up2Date, Felt, FeltInTime,
       Forces!ForceIsSumOfSources, Forces!EveryImpulseIsFelt

LEMMA ForceStarts ==
  ASSUME Forces!Init
  PROVE  ForceInv
BY DEF Forces!Init, Forces!PhysicsInit, ForceInv, TrueForce, Summed, SumOfSources, NotStale,
       Up2Date, Placed, Felt, FeltInTime, Waits, PhysicsFields

-----------------------------------------------------------------------------
(* Scene events.                                                           *)
EventFields ==
  {"inScene", "playerEntities", "subscriptions", "sources", "clickEntities",
   "sceneReady", "told", "news"}

(* Who is in the scene and who of them the helper has found; one source at *)
(* most calls the observers of the one name.                               *)
KnownPlayers(s) ==
  /\ DOMAIN s = EventFields
  /\ s.inScene \in Seq(Players) /\ IsInjective(s.inScene)
  /\ ToSet(s.inScene) \ s.news \subseteq s.playerEntities
  /\ s.playerEntities \subseteq ToSet(s.inScene)

SourcesOnce(s) ==
  /\ s.sources \in [Events!Cases -> {0, 1}]
  /\ s.subscriptions = {} => \A c \in Events!Cases : s.sources[c] = 0
  /\ s.subscriptions = {} \/ \E n : s.subscriptions = {n}

ToldOnce(s) ==
  /\ s.told \in [EventNames -> [Players -> {0, 1}]]

EventInv == KnownPlayers(state) /\ SourcesOnce(state) /\ ToldOnce(state)

LEMMA EventOperators ==
  /\ \A s : Events!Range(s) = ToSet(s) /\ Events!Cardinality(s) = Cardinality(s)
<1>1. ASSUME NEW s PROVE Events!Cardinality(s) = Cardinality(s)
  BY Zenon DEF Events!Cardinality, Cardinality
<1>2. ASSUME NEW s PROVE Events!Range(s) = ToSet(s)
  BY DEF Events!Range, ToSet
<1> QED BY <1>1, <1>2

(* Telling the observers of a case after silence.                          *)
LEMMA ToldAfterSilence ==
  ASSUME NEW s, DOMAIN s = EventFields, SourcesOnce(s), s.told = Events!Silence,
         NEW c \in Events!Cases, NEW players
  PROVE  LET t == Events!Told(s, c, players) IN
         /\ ToldOnce(t) /\ DOMAIN t = EventFields
         /\ \A f \in EventFields \ {"told"} : t[f] = s[f]
<1>1. \A n \in EventNames, p \in Players : s.told[n][p] = 0
  BY DEF Events!Silence
<1>2. s.told \in [EventNames -> [Players -> {0, 1}]] /\ s.sources[c] \in {0, 1}
  BY DEF Events!Silence, SourcesOnce
<1> DEFINE told == [n \in EventNames |->
                      IF Events!CaseOf[n] = c /\ n \in s.subscriptions
                      THEN [p \in Players |-> s.told[n][p] + IF p \in players THEN s.sources[c] ELSE 0]
                      ELSE s.told[n]]
<1>3. told \in [EventNames -> [Players -> {0, 1}]]
  BY <1>1, <1>2
<1>4. Events!Told(s, c, players) = [s EXCEPT !.told = told]
  BY DEF Events!Told
<1> HIDE DEF told
<1> QED BY <1>3, <1>4 DEF ToldOnce, EventFields

(* An event begins in silence.                                             *)
LEMMA EventIsSilent ==
  ASSUME EventInv
  PROVE  LET s == Events!Event(state) IN
         /\ DOMAIN s = EventFields /\ s.told = Events!Silence /\ ToldOnce(s)
         /\ SourcesOnce(s) /\ KnownPlayers(s)
         /\ \A f \in EventFields \ {"told"} : s[f] = state[f]
<1> DEFINE s == Events!Event(state)
<1>1. /\ DOMAIN s = EventFields /\ s.told = Events!Silence
      /\ \A f \in EventFields \ {"told"} : s[f] = state[f]
  BY DEF Events!Event, EventInv, KnownPlayers, EventFields
<1>2. Events!Silence \in [EventNames -> [Players -> {0, 1}]]
  BY DEF Events!Silence
<1> HIDE DEF s
<1>3. /\ DOMAIN s = EventFields /\ s.told = Events!Silence /\ ToldOnce(s)
      /\ SourcesOnce(s) /\ KnownPlayers(s)
      /\ \A f \in EventFields \ {"told"} : s[f] = state[f]
  BY <1>1, <1>2 DEF EventInv, KnownPlayers, SourcesOnce, ToldOnce, EventFields
<1> QED BY <1>3 DEF s

(* The system of the players finds every player there is.                  *)
LEMMA PlayersSystemFinds ==
  ASSUME NEW s, DOMAIN s = EventFields, KnownPlayers(s), SourcesOnce(s), ToldOnce(s),
         s.told = Events!Silence
  PROVE  LET t == Events!PlayersSystem(s) IN
         /\ DOMAIN t = EventFields /\ ToldOnce(t)
         /\ ToSet(t.inScene) \subseteq t.playerEntities
         /\ t.playerEntities \subseteq ToSet(t.inScene)
         /\ \A f \in EventFields \ {"told", "playerEntities"} : t[f] = s[f]
<1>1. IsFiniteSet(ToSet(s.inScene)) /\ Cardinality(ToSet(s.inScene)) = Len(s.inScene)
  BY CardinalityOfInjective DEF KnownPlayers
<1>2. CASE Len(s.inScene) = Cardinality(s.playerEntities)
  <2>1. s.playerEntities = ToSet(s.inScene)
    BY <1>1, <1>2, FS_Subset DEF KnownPlayers
  <2> QED BY <1>2, <2>1, EventOperators DEF Events!PlayersSystem
<1>3. CASE Len(s.inScene) # Cardinality(s.playerEntities)
  <2> DEFINE new == ToSet(s.inScene) \ s.playerEntities
             u == [s EXCEPT !.playerEntities = @ \cup new]
             t == Events!Told(u, 2, new)
  <2>1. Events!PlayersSystem(s) = t
    BY <1>3, EventOperators DEF Events!PlayersSystem, Events!Found
  <2>2. /\ DOMAIN u = EventFields /\ u.playerEntities = s.playerEntities \cup new
        /\ \A f \in EventFields \ {"playerEntities"} : u[f] = s[f]
    BY DEF EventFields
  <2> HIDE DEF u
  <2>3. SourcesOnce(u) /\ u.told = Events!Silence
    BY <2>2 DEF SourcesOnce, EventFields
  <2>4. /\ ToldOnce(t) /\ DOMAIN t = EventFields
        /\ \A f \in EventFields \ {"told"} : t[f] = u[f]
    BY <2>2, <2>3, ToldAfterSilence DEF Events!Cases
  <2> HIDE DEF t
  <2>5. /\ DOMAIN t = EventFields /\ ToldOnce(t)
        /\ ToSet(t.inScene) \subseteq t.playerEntities
        /\ t.playerEntities \subseteq ToSet(t.inScene)
        /\ \A f \in EventFields \ {"told", "playerEntities"} : t[f] = s[f]
    BY <2>2, <2>4 DEF KnownPlayers, EventFields
  <2> QED BY <2>1, <2>5
<1> QED BY <1>2, <1>3

LEMMA TickKnowsPlayers ==
  ASSUME EventInv, Events!Tick
  PROVE  EventInv'
<1> DEFINE e == Events!Event(state)
           t == Events!PlayersSystem(e)
           s == Events!PlayerClickSystem(t)
           start == IF state.sceneReady \/ "sceneStart" \notin state.subscriptions THEN s
                    ELSE [s EXCEPT !.told["sceneStart"] = [p \in Players |-> 1]]
<1>1. /\ DOMAIN e = EventFields /\ e.told = Events!Silence /\ ToldOnce(e)
      /\ SourcesOnce(e) /\ KnownPlayers(e)
      /\ \A f \in EventFields \ {"told"} : e[f] = state[f]
  BY EventIsSilent
<1> HIDE DEF e
<1>2. /\ DOMAIN t = EventFields /\ ToldOnce(t)
      /\ ToSet(t.inScene) \subseteq t.playerEntities
      /\ t.playerEntities \subseteq ToSet(t.inScene)
      /\ \A f \in EventFields \ {"told", "playerEntities"} : t[f] = e[f]
  BY <1>1, PlayersSystemFinds
<1> HIDE DEF t
<1>3. /\ DOMAIN s = EventFields /\ \A f \in EventFields \ {"clickEntities"} : s[f] = t[f]
  BY <1>2 DEF Events!PlayerClickSystem, EventFields
<1> HIDE DEF s
<1>4. /\ DOMAIN start = EventFields /\ \A f \in EventFields \ {"told"} : start[f] = s[f]
      /\ start.told \in [EventNames -> [Players -> {0, 1}]]
  <2>1. s.told \in [EventNames -> [Players -> {0, 1}]]
    BY <1>2, <1>3 DEF ToldOnce, EventFields
  <2>2. [p \in Players |-> 1] \in [Players -> {0, 1}]
    OBVIOUS
  <2> QED BY <1>3, <2>1, <2>2 DEF EventFields
<1>5. state' = [start EXCEPT !.sceneReady = TRUE, !.news = {}]
  BY DEF Events!Tick, start, s, t, e
<1> HIDE DEF start
<1>6. /\ DOMAIN state' = EventFields /\ state'.told = start.told
      /\ state'.inScene = state.inScene /\ state'.playerEntities = t.playerEntities
      /\ state'.subscriptions = state.subscriptions /\ state'.sources = state.sources
      /\ t.inScene = state.inScene
  BY <1>1, <1>2, <1>3, <1>4, <1>5 DEF EventFields
<1>7. KnownPlayers(state')
  BY <1>2, <1>6 DEF EventInv, KnownPlayers
<1>8. SourcesOnce(state') /\ ToldOnce(state')
  BY <1>4, <1>6 DEF EventInv, SourcesOnce, ToldOnce
<1> QED BY <1>7, <1>8 DEF EventInv

LEMMA EventStep ==
  ASSUME EventInv, Events!Next \/ UNCHANGED state
  PROVE  EventInv'
<1> DEFINE e == Events!Event(state)
<1>0. /\ DOMAIN e = EventFields /\ e.told = Events!Silence /\ ToldOnce(e)
      /\ SourcesOnce(e) /\ KnownPlayers(e)
      /\ \A f \in EventFields \ {"told"} : e[f] = state[f]
  BY EventIsSilent
<1>1. CASE Events!Tick
  BY <1>1, TickKnowsPlayers
<1>2. ASSUME NEW n \in EventNames, Events!subscribe(n) PROVE EventInv'
  <2>1. state.subscriptions = {}
    <3>1. Cardinality(state.subscriptions) < 1
      BY <1>2, EventOperators DEF Events!subscribe
    <3>2. \A x : Cardinality({x}) = 1
      BY FS_Singleton
    <3>3. ASSUME NEW n1, state.subscriptions = {n1} PROVE FALSE
      <4>1. Cardinality({n1}) < 1
        BY <3>1, <3>3, Zenon
      <4>2. Cardinality({n1}) = 1
        BY <3>2
      <4> HIDE <3>2
      <4> QED BY <4>1, <4>2
    <3> QED BY <3>3 DEF EventInv, SourcesOnce
  <2> DEFINE sources == [c \in Events!Cases |-> IF c >= Events!CaseOf[n] THEN e.sources[c] + 1
                                                ELSE e.sources[c]]
  <2>2. state' = [e EXCEPT !.sources = sources, !.subscriptions = @ \cup {n},
                           !.news = ToSet(state.inScene)]
    BY <1>2, EventOperators DEF Events!subscribe
  <2>3. sources \in [Events!Cases -> {0, 1}]
    BY <1>0, <2>1 DEF SourcesOnce, EventFields
  <2> HIDE DEF sources, e
  <2>4. /\ DOMAIN state' = EventFields /\ state'.sources = sources /\ state'.subscriptions = {n}
        /\ state'.news = ToSet(state.inScene) /\ state'.told = e.told
        /\ state'.inScene = state.inScene /\ state'.playerEntities = state.playerEntities
    BY <1>0, <2>1, <2>2 DEF EventFields
  <2> QED BY <1>0, <2>3, <2>4 DEF EventInv, KnownPlayers, SourcesOnce, ToldOnce
<1>3. ASSUME NEW i \in DOMAIN state.inScene, Events!PlayerLeaves(i) PROVE EventInv'
  <2> DEFINE p == state.inScene[i]
             left == [e EXCEPT !.inScene = RemoveAt(@, i), !.news = @ \ {p}]
  <2>1. /\ state.inScene \in Seq(Players) /\ IsInjective(state.inScene)
        /\ i \in 1 .. Len(state.inScene)
    BY DEF EventInv, KnownPlayers
  <2>2. state' = Events!Left(left, p)
    BY <1>3, EventOperators DEF Events!PlayerLeaves, RemoveAt
  <2>3. /\ DOMAIN left = EventFields /\ left.inScene = RemoveAt(state.inScene, i)
        /\ left.news = state.news \ {p}
        /\ \A f \in EventFields \ {"inScene", "news"} : left[f] = e[f]
    BY <1>0 DEF EventFields
  <2> HIDE DEF left, e
  <2>4. SourcesOnce(left) /\ left.told = Events!Silence /\ ToldOnce(left)
    BY <1>0, <2>3 DEF SourcesOnce, EventFields, ToldOnce
  <2>5. /\ left.inScene \in Seq(Players) /\ IsInjective(left.inScene)
        /\ ToSet(left.inScene) = ToSet(state.inScene) \ {p}
        /\ left.playerEntities = state.playerEntities
    BY <1>0, <2>1, <2>3, RemoveAtKeepsInjective DEF EventFields
  <2>6. CASE p \in left.playerEntities
    <3> DEFINE t == Events!Told(left, 3, {p})
    <3>1. /\ ToldOnce(t) /\ DOMAIN t = EventFields
          /\ \A f \in EventFields \ {"told"} : t[f] = left[f]
      BY <2>3, <2>4, ToldAfterSilence DEF Events!Cases
    <3>2. state' = [t EXCEPT !.playerEntities = @ \ {p}]
      BY <2>2, <2>6 DEF Events!Left
    <3> HIDE DEF t
    <3>3. /\ DOMAIN state' = EventFields /\ state'.playerEntities = state.playerEntities \ {p}
          /\ state'.inScene = left.inScene /\ state'.news = state.news \ {p}
          /\ state'.told = t.told /\ state'.sources = left.sources
          /\ state'.subscriptions = left.subscriptions
      BY <2>3, <2>5, <3>1, <3>2 DEF EventFields
    <3> QED BY <2>4, <2>5, <3>1, <3>3 DEF EventInv, KnownPlayers, SourcesOnce, ToldOnce
  <2>7. CASE p \notin left.playerEntities
    <3>1. state' = left
      BY <2>2, <2>7 DEF Events!Left
    <3> QED BY <2>3, <2>4, <2>5, <2>7, <3>1 DEF EventInv, KnownPlayers
  <2> QED BY <2>6, <2>7
<1>4. ASSUME NEW p \in Players, Events!PlayerComes(p) PROVE EventInv'
  <2>1. /\ state' = [e EXCEPT !.inScene = Append(@, p), !.news = @ \cup {p}]
        /\ p \notin ToSet(state.inScene)
    BY <1>4, EventOperators DEF Events!PlayerComes
  <2> HIDE DEF e
  <2>2. /\ DOMAIN state' = EventFields /\ state'.inScene = Append(state.inScene, p)
        /\ state'.news = state.news \cup {p} /\ state'.told = e.told
        /\ state'.playerEntities = state.playerEntities /\ state'.sources = state.sources
        /\ state'.subscriptions = state.subscriptions
    BY <1>0, <2>1 DEF EventFields
  <2>3. /\ state'.inScene \in Seq(Players) /\ IsInjective(state'.inScene)
        /\ ToSet(state'.inScene) = ToSet(state.inScene) \cup {p}
    <3>1. state.inScene \in Seq(Players) /\ IsInjective(state.inScene)
      BY DEF EventInv, KnownPlayers
    <3> DEFINE more == Append(state.inScene, p)
    <3>2. /\ more \in Seq(Players) /\ IsInjective(more)
          /\ ToSet(more) = ToSet(state.inScene) \cup {p}
      BY <2>1, <3>1, AppendKeepsInjective
    <3>3. state'.inScene = more
      BY <2>2
    <3> HIDE DEF more
    <3> QED BY <3>2, <3>3
  <2> QED BY <1>0, <2>2, <2>3 DEF EventInv, KnownPlayers, SourcesOnce, ToldOnce
<1>5. ASSUME NEW c \in Events!Cases, NEW players, state' = e \/ state' = Events!Told(e, c, players)
      PROVE EventInv'
  <2> HIDE DEF e
  <2>1. /\ ToldOnce(state') /\ DOMAIN state' = EventFields
        /\ \A f \in EventFields \ {"told"} : state'[f] = e[f]
    BY <1>0, <1>5, ToldAfterSilence
  <2> QED BY <1>0, <2>1 DEF EventInv, KnownPlayers, SourcesOnce, EventFields
<1>6. CASE UNCHANGED state
  BY <1>6 DEF EventInv, KnownPlayers, SourcesOnce, ToldOnce
<1>7. ASSUME NEW p \in Players, Events!PlayerClicked(p) PROVE EventInv'
  <2>1. 1 \in Events!Cases
    BY DEF Events!Cases
  <2> QED BY <1>5, <1>7, <2>1 DEF Events!PlayerClicked
<1>8. ASSUME NEW p \in Players, NEW c \in Events!Cases, Events!OwnPlayerChanges(c, p) PROVE EventInv'
  BY <1>5, <1>8 DEF Events!OwnPlayerChanges
<1> QED BY <1>1, <1>2, <1>3, <1>4, <1>6, <1>7, <1>8 DEF Events!Next

LEMMA EventsStart ==
  ASSUME Events!Init
  PROVE  EventInv
<1>1. /\ DOMAIN state = EventFields /\ state.inScene = <<>> /\ state.playerEntities = {}
      /\ state.subscriptions = {} /\ state.sources = [c \in Events!Cases |-> 0]
      /\ state.told = Events!Silence
  BY DEF Events!Init, Events!EventsInit, EventFields
<1>2. <<>> \in Seq(Players) /\ IsInjective(<<>>) /\ ToSet(<<>>) = {}
  BY DEF IsInjective, ToSet
<1>3. Events!Silence \in [EventNames -> [Players -> {0, 1}]]
  BY DEF Events!Silence
<1> QED BY <1>1, <1>2, <1>3 DEF EventInv, KnownPlayers, SourcesOnce, ToldOnce

LEMMA EventsAreKnownAndOnce ==
  ASSUME EventInv
  PROVE  Events!PlayersAreKnown /\ Events!HeardAtMostOnce
<1>1. Events!PlayersAreKnown
  BY EventOperators DEF EventInv, KnownPlayers, Events!PlayersAreKnown
<1>2. ASSUME NEW n \in EventNames, NEW p \in Players PROVE state.told[n][p] <= 1
  <2>1. state.told[n] \in [Players -> {0, 1}]
    BY DEF EventInv, ToldOnce
  <2>2. state.told[n][p] \in {0, 1}
    BY <2>1
  <2> QED BY <2>2
<1> QED BY <1>1, <1>2 DEF Events!HeardAtMostOnce

-----------------------------------------------------------------------------
(* The scale of the UI.                                                    *)
UiFields ==
  {"main", "extra", "removed", "live", "canvas", "mobile", "uiScaleFactor",
   "uiScaleOwner", "insetArea", "insetOwner", "quiet"}

(* What the scale systems write.                                           *)
ScaleFields == {"uiScaleFactor", "uiScaleOwner", "insetArea", "insetOwner"}

(* The scale belongs to a live system, or to none and is 1.                *)
UiOwned(u) ==
  /\ u.uiScaleOwner = UiSystems!NoOwner => u.uiScaleFactor = 1
  /\ u.uiScaleOwner # UiSystems!NoOwner =>
       u.uiScaleOwner \in UiSystems!SystemNames /\ u.live[u.uiScaleOwner]

(* The owner has a UI to scale, or there is no owner.                      *)
OwnerScales(u) == u.uiScaleOwner \in UiSystems!Scaling(u) \cup {UiSystems!NoOwner}

Fits(u) ==
  \E s \in UiSystems!Scaling(u) :
    u.uiScaleFactor = UiSystems!Fit(u.canvas, UiSystems!resolveVirtualSize(u, s))

InsetFits(u) == u.canvas # 0 => u.insetArea = u.canvas

(* One tick without a change leaves no entity to remove and the insets of  *)
(* the canvas; the second leaves no owner without a UI; the third fits.    *)
UiInv ==
  /\ DOMAIN state = UiFields /\ DOMAIN state.live = UiSystems!SystemNames
  /\ state.quiet \in 0 .. 3
  /\ UiOwned(state)
  /\ state.quiet >= 1 =>
       /\ \A s \in UiSystems!SystemNames : state.live[s] => ~state.removed[s]
       /\ (\E s \in UiSystems!SystemNames : state.live[s]) => InsetFits(state)
  /\ state.quiet >= 2 => OwnerScales(state)
  /\ state.quiet = 3 /\ state.canvas # 0 /\ UiSystems!Scaling(state) # {} => Fits(state)

(* v is u after the scale systems of some live UIs; those of later are     *)
(* still to run.                                                           *)
ScaledBy(u, v, ran, later) ==
  /\ DOMAIN v = UiFields
  /\ \A f \in UiFields \ ScaleFields : v[f] = u[f]
  /\ UiOwned(v)
  /\ (\E s \in ran : u.live[s]) => InsetFits(v)
  /\ v.uiScaleOwner \in UiSystems!Scaling(u) \cup {UiSystems!NoOwner} \cup later
  /\ OwnerScales(u) =>
       /\ OwnerScales(v)
       /\ u.canvas # 0 /\ ran \cap UiSystems!Scaling(u) # {} => Fits(v)

(* What would scale does not depend on the scale there is.                 *)
LEMMA ScalingIsSame ==
  ASSUME NEW u, NEW v, \A f \in UiFields \ ScaleFields : v[f] = u[f]
  PROVE  /\ UiSystems!Scaling(v) = UiSystems!Scaling(u) /\ v.canvas = u.canvas
         /\ \A s : /\ UiSystems!resolveVirtualSize(v, s) = UiSystems!resolveVirtualSize(u, s)
                   /\ UiSystems!HasUi(v, s) = UiSystems!HasUi(u, s)
<1>1. /\ v.main = u.main /\ v.extra = u.extra /\ v.mobile = u.mobile /\ v.live = u.live
      /\ v.canvas = u.canvas
  BY DEF UiFields, ScaleFields
<1>2. ASSUME NEW s
      PROVE  /\ UiSystems!resolveVirtualSize(v, s) = UiSystems!resolveVirtualSize(u, s)
             /\ UiSystems!HasUi(v, s) = UiSystems!HasUi(u, s)
  BY <1>1, Zenon DEF UiSystems!resolveVirtualSize, UiSystems!getActiveVirtualSize, UiSystems!HasUi
<1>3. UiSystems!Scaling(v) = UiSystems!Scaling(u)
  BY <1>1, <1>2, Zenon DEF UiSystems!Scaling
<1> QED BY <1>1, <1>2, <1>3

(* The scale system of one live UI.                                        *)
LEMMA ScaleSystemScales ==
  ASSUME NEW u, NEW v, NEW ran, NEW later, NEW s \in UiSystems!SystemNames, u.live[s],
         NEW rest, later \subseteq rest \cup {s}, ScaledBy(u, v, ran, later)
  PROVE  ScaledBy(u, UiSystems!UiScaleSystem(v, s), ran \cup {s}, rest)
<1> DEFINE i    == IF v.canvas # 0 THEN UiSystems!setInsetArea(v, v.canvas, s) ELSE v
           size == UiSystems!resolveVirtualSize(u, s)
           w    == UiSystems!UiScaleSystem(v, s)
           none == UiSystems!NoOwner
           scaling == UiSystems!Scaling(u)
<1>0. s # none /\ none \notin UiSystems!SystemNames
  BY CoreAssumption DEF UiSystems!UiAssumption
<1>1. /\ DOMAIN i = UiFields /\ InsetFits(i)
      /\ \A f \in UiFields \ {"insetArea", "insetOwner"} : i[f] = v[f]
      /\ \A f \in UiFields \ ScaleFields : i[f] = u[f]
  BY DEF ScaledBy, UiFields, ScaleFields, InsetFits, UiSystems!setInsetArea
<1>2. /\ UiSystems!resolveVirtualSize(i, s) = size /\ i.canvas = u.canvas
      /\ UiSystems!HasUi(i, s) = UiSystems!HasUi(u, s)
  BY <1>1, ScalingIsSame
<1>3. s \in scaling <=> UiSystems!HasUi(u, s) /\ size # UiSystems!Disabled
  BY DEF UiSystems!Scaling
<1>4. w = IF ~UiSystems!HasUi(i, s) \/ UiSystems!resolveVirtualSize(i, s) = UiSystems!Disabled
          THEN UiSystems!resetUiScaleFactor(i, s)
          ELSE IF i.canvas = 0
                  \/ UiSystems!Fit(i.canvas, UiSystems!resolveVirtualSize(i, s)) = i.uiScaleFactor
          THEN i
          ELSE UiSystems!setUiScaleFactor(i, UiSystems!Fit(i.canvas, UiSystems!resolveVirtualSize(i, s)), s)
  BY Zenon DEF UiSystems!UiScaleSystem
<1> HIDE DEF i, w, size
<1>5. \/ s \notin scaling /\ w = UiSystems!resetUiScaleFactor(i, s)
      \/ s \in scaling /\ w = i /\ (u.canvas = 0 \/ UiSystems!Fit(u.canvas, size) = i.uiScaleFactor)
      \/ s \in scaling /\ w = UiSystems!setUiScaleFactor(i, UiSystems!Fit(u.canvas, size), s)
  BY <1>2, <1>3, <1>4, Zenon
<1>6. /\ DOMAIN w = UiFields /\ InsetFits(w) /\ \A f \in UiFields \ ScaleFields : w[f] = u[f]
      /\ \/ s \notin scaling /\ i.uiScaleOwner = s /\ w.uiScaleOwner = none /\ w.uiScaleFactor = 1
         \/ s \notin scaling /\ i.uiScaleOwner # s /\ w.uiScaleOwner = i.uiScaleOwner
            /\ w.uiScaleFactor = i.uiScaleFactor
         \/ s \in scaling /\ w.uiScaleOwner = i.uiScaleOwner /\ w.uiScaleFactor = i.uiScaleFactor
            /\ (u.canvas # 0 => w.uiScaleFactor = UiSystems!Fit(u.canvas, size))
         \/ s \in scaling /\ w.uiScaleOwner = s /\ w.uiScaleFactor = UiSystems!Fit(u.canvas, size)
  <2>1. CASE s \notin scaling /\ w = UiSystems!resetUiScaleFactor(i, s)
    BY <1>1, <2>1 DEF UiSystems!resetUiScaleFactor, UiFields, ScaleFields, InsetFits
  <2>2. CASE s \in scaling /\ w = i /\ (u.canvas = 0 \/ UiSystems!Fit(u.canvas, size) = i.uiScaleFactor)
    BY <1>1, <2>2
  <2>3. CASE s \in scaling /\ w = UiSystems!setUiScaleFactor(i, UiSystems!Fit(u.canvas, size), s)
    BY <1>1, <2>3 DEF UiSystems!setUiScaleFactor, UiFields, ScaleFields, InsetFits
  <2> QED BY <1>5, <2>1, <2>2, <2>3
<1>7. i.uiScaleOwner = v.uiScaleOwner /\ i.uiScaleFactor = v.uiScaleFactor
      /\ v.live = u.live /\ w.live = u.live
  BY <1>1, <1>6 DEF UiFields, ScaleFields, ScaledBy
<1>8. UiOwned(w)
  BY <1>0, <1>6, <1>7, Zenon DEF UiOwned, ScaledBy
<1>9. w.uiScaleOwner \in scaling \cup {none} \cup rest
  BY <1>6, <1>7, Zenon DEF ScaledBy
<1>10. ASSUME OwnerScales(u)
       PROVE  /\ OwnerScales(w)
              /\ u.canvas # 0 /\ (ran \cup {s}) \cap scaling # {} => Fits(w)
  <2>1. UiSystems!Scaling(w) = scaling /\ w.canvas = u.canvas
        /\ \A x : UiSystems!resolveVirtualSize(w, x) = UiSystems!resolveVirtualSize(u, x)
    BY <1>6, ScalingIsSame
  <2>2. UiSystems!Scaling(v) = scaling /\ v.canvas = u.canvas
        /\ \A x : UiSystems!resolveVirtualSize(v, x) = UiSystems!resolveVirtualSize(u, x)
    BY ScalingIsSame DEF ScaledBy
  <2>3. v.uiScaleOwner \in scaling \cup {none}
    BY <1>10, <2>2, Zenon DEF ScaledBy, OwnerScales
  <2>4. w.uiScaleOwner \in scaling \cup {none}
    BY <1>6, <1>7, <2>3, Zenon
  <2>5. ASSUME u.canvas # 0, (ran \cup {s}) \cap scaling # {} PROVE Fits(w)
    <3>1. CASE s \in scaling
      BY <1>6, <2>1, <2>5, <3>1, Zenon DEF Fits, size
    <3>2. CASE s \notin scaling
      <4>1. Fits(v)
        BY <1>10, <2>5, <3>2 DEF ScaledBy
      <4>2. w.uiScaleFactor = v.uiScaleFactor
        BY <1>0, <1>6, <1>7, <2>3, <3>2
      <4> QED BY <2>1, <2>2, <4>1, <4>2, Zenon DEF Fits
    <3> QED BY <3>1, <3>2
  <2> QED BY <2>1, <2>4, <2>5, Zenon DEF OwnerScales
<1>11. ScaledBy(u, w, ran \cup {s}, rest)
  BY <1>6, <1>8, <1>9, <1>10, Zenon DEF ScaledBy
<1> QED BY <1>11 DEF w

(* The recursion of Scaled, unfolded.                                      *)
LEMMA ScaledSteps ==
  ASSUME NEW u
  PROVE  \E after : /\ after[0] = u
                    /\ \A i \in 1 .. Len(UiSystemOrder) :
                         after[i] = IF u.live[UiSystemOrder[i]]
                                    THEN UiSystems!UiScaleSystem(after[i - 1], UiSystemOrder[i])
                                    ELSE after[i - 1]
                    /\ UiSystems!Scaled(u) = after[Len(UiSystemOrder)]
<1> DEFINE n == Len(UiSystemOrder)
           Step(w, i) == IF u.live[UiSystemOrder[i]]
                         THEN UiSystems!UiScaleSystem(w, UiSystemOrder[i]) ELSE w
           Is(f, k) == f = [i \in 0 .. k |-> IF i = 0 THEN u ELSE Step(f[i - 1], i)]
           Defined == {k \in Nat : \E f : Is(f, k)}
<1>0. n \in Nat
  BY CoreAssumption DEF UiSystems!UiAssumption
<1>5. ASSUME NEW after, after = CHOOSE f : Is(f, n)
      PROVE  UiSystems!Scaled(u) = after[n]
  BY <1>5 DEF UiSystems!Scaled
<1> HIDE DEF Step
<1>1. 0 \in Defined
  <2>1. Is([i \in 0 .. 0 |-> u], 0)
    OBVIOUS
  <2> QED BY <2>1
<1>2. ASSUME NEW k \in Nat, k \in Defined PROVE k + 1 \in Defined
  <2>1. PICK f : Is(f, k)
    BY <1>2
  <2> DEFINE g == [i \in 0 .. k + 1 |-> IF i = k + 1 THEN Step(f[k], k + 1) ELSE f[i]]
  <2>2. \A i \in 0 .. k : g[i] = f[i]
    OBVIOUS
  <2>3. ASSUME NEW i \in 0 .. k + 1
        PROVE  g[i] = IF i = 0 THEN u ELSE Step(g[i - 1], i)
    <3>1. CASE i = k + 1
      BY <3>1
    <3>2. CASE i # k + 1
      <4>1. i \in 0 .. k /\ (i # 0 => i - 1 \in 0 .. k)
        BY <3>2
      <4>2. f[i] = IF i = 0 THEN u ELSE Step(f[i - 1], i)
        BY <2>1, <4>1
      <4> QED BY <2>2, <4>1, <4>2
    <3> QED BY <3>1, <3>2
  <2>4. Is(g, k + 1)
    BY <2>3
  <2> HIDE DEF g, Is
  <2> QED BY <2>4
<1>3. n \in Defined
  <2> HIDE DEF Defined, n
  <2> QED BY <1>0, <1>1, <1>2, Induction
<1> DEFINE after == CHOOSE f : Is(f, n)
<1>4. Is(after, n)
  BY <1>3
<1>6. UiSystems!Scaled(u) = after[n]
  BY <1>5
<1> HIDE DEF after
<1>7. after[0] = u /\ \A i \in 1 .. n : after[i] = Step(after[i - 1], i)
  BY <1>0, <1>4
<1> QED BY <1>6, <1>7 DEF Step

(* All scale systems, by induction over their number.                      *)
LEMMA ScaledIsScaledBy ==
  ASSUME NEW u, DOMAIN u = UiFields, UiOwned(u)
  PROVE  ScaledBy(u, UiSystems!Scaled(u), UiSystems!SystemNames, {})
<1> DEFINE n == Len(UiSystemOrder)
           ran(i) == {UiSystemOrder[j] : j \in 1 .. i}
           later(i) == {UiSystemOrder[j] : j \in i + 1 .. n}
<1>0. /\ n \in Nat /\ UiSystems!SystemNames = ran(n)
      /\ \A i \in 1 .. n : UiSystemOrder[i] \in UiSystems!SystemNames
  <2>1. UiSystemOrder \in Seq(UiSystems!SystemNames)
    BY CoreAssumption DEF UiSystems!UiAssumption
  <2> QED BY <2>1 DEF UiSystems!SystemNames
<1>1. PICK after : /\ after[0] = u
                   /\ \A i \in 1 .. n :
                        after[i] = IF u.live[UiSystemOrder[i]]
                                   THEN UiSystems!UiScaleSystem(after[i - 1], UiSystemOrder[i])
                                   ELSE after[i - 1]
                   /\ UiSystems!Scaled(u) = after[n]
  BY ScaledSteps
<1> DEFINE Done == {i \in Nat : i <= n => ScaledBy(u, after[i], ran(i), later(i))}
<1>2. 0 \in Done
  <2>1. ran(0) = {} /\ later(0) = UiSystems!SystemNames
    BY <1>0 DEF UiSystems!SystemNames
  <2>2. u.uiScaleOwner \in {UiSystems!NoOwner} \cup UiSystems!SystemNames
    BY DEF UiOwned
  <2> HIDE DEF ran, later
  <2> QED BY <1>1, <2>1, <2>2 DEF ScaledBy
<1>3. ASSUME NEW i \in Nat, i \in Done PROVE i + 1 \in Done
  <2>0. SUFFICES ASSUME i + 1 <= n PROVE ScaledBy(u, after[i + 1], ran(i + 1), later(i + 1))
    OBVIOUS
  <2> DEFINE s == UiSystemOrder[i + 1]
  <2>1. i \in 0 .. n /\ i + 1 \in 1 .. n /\ (i + 1) - 1 = i
    BY <1>0, <2>0
  <2>2. /\ after[i + 1] = IF u.live[s] THEN UiSystems!UiScaleSystem(after[i], s) ELSE after[i]
        /\ s \in UiSystems!SystemNames
    BY <1>0, <1>1, <2>1
  <2>3. ran(i + 1) = ran(i) \cup {s}
    <3>1. 1 .. i + 1 = (1 .. i) \cup {i + 1}
      OBVIOUS
    <3> QED BY <3>1
  <2>4. later(i) = later(i + 1) \cup {s}
    <3>1. i + 1 .. n = (i + 1 + 1 .. n) \cup {i + 1}
      BY <1>0, <2>0
    <3> QED BY <3>1
  <2>5. ScaledBy(u, after[i], ran(i), later(i))
    BY <1>3, <2>1
  <2> HIDE DEF ran, later, s
  <2>6. CASE u.live[s]
    BY <2>2, <2>3, <2>4, <2>5, <2>6, ScaleSystemScales
  <2>7. CASE ~u.live[s]
    <3>1. after[i + 1] = after[i] /\ s \notin UiSystems!Scaling(u)
      BY <2>2, <2>7, Zenon DEF UiSystems!Scaling
    <3>2. after[i].live = u.live
      BY <2>5 DEF ScaledBy, UiFields, ScaleFields
    <3>3. after[i].uiScaleOwner # s \/ s = UiSystems!NoOwner
      BY <2>5, <2>7, <3>2, Zenon DEF ScaledBy, UiOwned
    <3> QED BY <2>3, <2>4, <2>5, <2>7, <3>1, <3>3, Zenon DEF ScaledBy
  <2> QED BY <2>6, <2>7
<1>4. n \in Done
  <2> HIDE DEF Done, n
  <2> QED BY <1>0, <1>2, <1>3, Induction
<1>5. later(n) = {}
  BY <1>0
<1> HIDE DEF ran, later
<1> QED BY <1>0, <1>1, <1>4, <1>5

(* A change, by the scene or the renderer, leaves the scale to its owner.  *)
LEMMA ChangeKeepsOwner ==
  ASSUME UiInv, NEW u, DOMAIN u = UiFields, DOMAIN u.live = UiSystems!SystemNames, UiOwned(u),
         state' = UiSystems!Changed(u)
  PROVE  UiInv'
<1>1. /\ DOMAIN state' = UiFields /\ state'.quiet = 0
      /\ \A f \in UiFields \ {"quiet"} : state'[f] = u[f]
  BY DEF UiSystems!Changed, UiFields
<1>2. state'.live = u.live /\ state'.uiScaleOwner = u.uiScaleOwner
      /\ state'.uiScaleFactor = u.uiScaleFactor
  BY <1>1 DEF UiFields
<1>3. UiOwned(state')
  BY <1>2, Zenon DEF UiOwned
<1>4. state'.quiet \in 0 .. 3 /\ ~(state'.quiet >= 1) /\ ~(state'.quiet >= 2) /\ state'.quiet # 3
  BY <1>1
<1> QED BY <1>1, <1>2, <1>3, <1>4, Zenon DEF UiInv

LEMMA UiTick ==
  ASSUME UiInv, UiSystems!Tick
  PROVE  UiInv'
<1> DEFINE v == UiSystems!Scaled(state)
           gone == {s \in UiSystems!SystemNames : v.live[s] /\ v.removed[s]}
<1>1. ScaledBy(state, v, UiSystems!SystemNames, {})
  BY ScaledIsScaledBy DEF UiInv
<1>2. state' = [UiSystems!ReactBasedUiSystem(v) EXCEPT !.quiet = IF @ < 3 THEN @ + 1 ELSE @]
  BY DEF UiSystems!Tick
<1> HIDE DEF v
<1>3. UiSystems!ReactBasedUiSystem(v) =
        [v EXCEPT !.extra = [s \in UiSystems!SystemNames |->
                               IF s \in gone THEN UiSystems!NoUi ELSE v.extra[s]],
                  !.removed = [s \in UiSystems!SystemNames |-> v.removed[s] /\ s \notin gone]]
  BY Zenon DEF UiSystems!ReactBasedUiSystem
<1> HIDE DEF gone
<1>4. /\ DOMAIN state' = UiFields /\ DOMAIN v = UiFields
      /\ \A f \in UiFields \ {"extra", "removed", "quiet"} : state'[f] = v[f]
      /\ state'.extra = [s \in UiSystems!SystemNames |->
                               IF s \in gone THEN UiSystems!NoUi ELSE v.extra[s]]
      /\ state'.removed = [s \in UiSystems!SystemNames |-> v.removed[s] /\ s \notin gone]
      /\ state'.quiet = IF v.quiet < 3 THEN v.quiet + 1 ELSE v.quiet
  BY <1>1, <1>2, <1>3 DEF ScaledBy, UiFields
<1>5. /\ v.live = state.live /\ v.canvas = state.canvas /\ v.quiet = state.quiet
      /\ v.extra = state.extra /\ v.main = state.main /\ v.mobile = state.mobile
      /\ v.removed = state.removed
  BY <1>1 DEF ScaledBy, UiFields, ScaleFields
<1>6. /\ state'.live = v.live /\ state'.canvas = v.canvas /\ state'.insetArea = v.insetArea
      /\ state'.uiScaleOwner = v.uiScaleOwner /\ state'.uiScaleFactor = v.uiScaleFactor
      /\ state'.main = v.main /\ state'.mobile = v.mobile
  BY <1>4 DEF UiFields
<1>7. /\ state'.quiet \in 0 .. 3 /\ state'.quiet >= 1
      /\ state'.quiet >= 2 => state.quiet >= 1
      /\ state'.quiet = 3 => state.quiet >= 2
  BY <1>4, <1>5 DEF UiInv
<1>8. UiOwned(state')
  BY <1>1, <1>6, Zenon DEF ScaledBy, UiOwned
<1>9. \A s \in UiSystems!SystemNames : state'.live[s] => ~state'.removed[s]
  <2> TAKE s \in UiSystems!SystemNames
  <2>1. state'.removed[s] = (v.removed[s] /\ s \notin gone)
    BY <1>4
  <2> QED BY <1>6, <2>1, Zenon DEF gone
<1>10. (\E s \in UiSystems!SystemNames : state'.live[s]) => InsetFits(state')
  BY <1>1, <1>5, <1>6, Zenon DEF ScaledBy, InsetFits
<1>11. ASSUME state.quiet >= 1
       PROVE  /\ OwnerScales(state')
              /\ OwnerScales(state) /\ state'.canvas # 0 /\ UiSystems!Scaling(state') # {}
                   => Fits(state')
  <2>1. \A s \in UiSystems!SystemNames : state.live[s] => s \notin gone
    BY <1>5, <1>11, Zenon DEF UiInv, gone
  <2>2. \A s \in UiSystems!SystemNames : state.live[s] => state'.extra[s] = state.extra[s]
    BY <1>4, <1>5, <2>1
  <2>3. ASSUME NEW s \in UiSystems!SystemNames, state.live[s]
        PROVE  /\ UiSystems!resolveVirtualSize(state', s) = UiSystems!resolveVirtualSize(state, s)
               /\ UiSystems!HasUi(state', s) = UiSystems!HasUi(state, s)
    <3>1. state'.extra[s] = state.extra[s]
      BY <2>2, <2>3
    <3>2. state'.main = state.main /\ state'.mobile = state.mobile
      BY <1>5, <1>6
    <3> QED BY <3>1, <3>2, Zenon
            DEF UiSystems!resolveVirtualSize, UiSystems!getActiveVirtualSize, UiSystems!HasUi
  <2>4. UiSystems!Scaling(state') = UiSystems!Scaling(state)
    BY <1>5, <1>6, <2>3, Zenon DEF UiSystems!Scaling
  <2>5. OwnerScales(state')
    BY <1>1, <1>6, <2>4, Zenon DEF ScaledBy, OwnerScales
  <2>6. ASSUME OwnerScales(state), state'.canvas # 0, UiSystems!Scaling(state') # {}
        PROVE  Fits(state')
    <3>1. /\ UiSystems!Scaling(v) = UiSystems!Scaling(state)
          /\ \A x : UiSystems!resolveVirtualSize(v, x) = UiSystems!resolveVirtualSize(state, x)
      BY <1>1, ScalingIsSame DEF ScaledBy
    <3>2. UiSystems!SystemNames \cap UiSystems!Scaling(state) # {}
      BY <2>4, <2>6, Zenon DEF UiSystems!Scaling
    <3>3. Fits(v)
      BY <1>1, <1>5, <1>6, <2>6, <3>2, Zenon DEF ScaledBy
    <3>4. PICK s \in UiSystems!Scaling(state) :
            v.uiScaleFactor = UiSystems!Fit(v.canvas, UiSystems!resolveVirtualSize(state, s))
      BY <3>1, <3>3, Zenon DEF Fits
    <3>5. s \in UiSystems!SystemNames /\ state.live[s]
      BY <3>4, Zenon DEF UiSystems!Scaling
    <3>6. UiSystems!resolveVirtualSize(state', s) = UiSystems!resolveVirtualSize(state, s)
      BY <2>3, <3>5
    <3> QED BY <1>6, <2>4, <3>4, <3>6, Zenon DEF Fits
  <2> QED BY <2>5, <2>6
<1>12. state'.quiet >= 2 => OwnerScales(state')
  BY <1>7, <1>11
<1>13. state'.quiet = 3 /\ state'.canvas # 0 /\ UiSystems!Scaling(state') # {} => Fits(state')
  <2>1. state.quiet >= 2 => state.quiet >= 1 /\ OwnerScales(state)
    BY DEF UiInv
  <2> QED BY <1>7, <1>11, <2>1
<1>14. DOMAIN state'.live = UiSystems!SystemNames
  BY <1>5, <1>6 DEF UiInv
<1> QED BY <1>4, <1>7, <1>8, <1>9, <1>10, <1>12, <1>13, <1>14, Zenon DEF UiInv

LEMMA UiStep ==
  ASSUME UiInv, UiSystems!Next \/ UNCHANGED state
  PROVE  UiInv'
<1> DEFINE none == UiSystems!NoOwner
<1>1. CASE UiSystems!Tick
  BY <1>1, UiTick
<1>2. ASSUME NEW u, DOMAIN u = UiFields, state' = UiSystems!Changed(u),
             u.live = state.live, u.uiScaleOwner = state.uiScaleOwner,
             u.uiScaleFactor = state.uiScaleFactor
      PROVE  UiInv'
  <2>1. UiOwned(u) /\ DOMAIN u.live = UiSystems!SystemNames
    BY <1>2, Zenon DEF UiInv, UiOwned
  <2> QED BY <1>2, <2>1, ChangeKeepsOwner
<1>3. CASE \/ UiSystems!PlatformIsMobile
           \/ \E width \in Canvases : UiSystems!CanvasChanges(width)
  <2>1. \E f \in {"mobile", "canvas"} : \E x : state' = UiSystems!Changed([state EXCEPT ![f] = x])
    BY <1>3 DEF UiSystems!PlatformIsMobile, UiSystems!CanvasChanges
  <2> QED BY <1>2, <2>1 DEF UiInv, UiFields
<1>4. ASSUME NEW s \in UiSystems!SystemNames,
             \/ UiSystems!removeUiRenderer(s) \/ UiSystems!RemoveEntity(s)
             \/ \E options \in UiSystems!Options :
                  UiSystems!setUiRenderer(s, options) \/ UiSystems!addUiRenderer(s, options)
      PROVE  UiInv'
  <2>1. PICK main, extra, removed :
          state' = UiSystems!Changed([state EXCEPT !.main = main, !.extra = extra,
                                                   !.removed = removed])
    <3>1. CASE UiSystems!removeUiRenderer(s)
      <4>1. state' = UiSystems!Changed([state EXCEPT !.main = state.main,
                        !.extra = [state.extra EXCEPT ![s] = UiSystems!NoUi],
                        !.removed = [state.removed EXCEPT ![s] = FALSE]])
        BY <3>1 DEF UiSystems!removeUiRenderer, UiInv, UiFields
      <4> QED BY <4>1, Zenon
    <3>2. CASE UiSystems!RemoveEntity(s)
      <4>1. state' = UiSystems!Changed([state EXCEPT !.main = state.main, !.extra = state.extra,
                        !.removed = [state.removed EXCEPT ![s] = TRUE]])
        BY <3>2 DEF UiSystems!RemoveEntity, UiInv, UiFields
      <4> QED BY <4>1, Zenon
    <3>3. ASSUME NEW options, UiSystems!setUiRenderer(s, options)
          PROVE  \E main, extra, removed :
                   state' = UiSystems!Changed([state EXCEPT !.main = main, !.extra = extra,
                                                            !.removed = removed])
      <4>1. state' = UiSystems!Changed([state EXCEPT !.main = [state.main EXCEPT ![s] = options],
                        !.extra = state.extra, !.removed = state.removed])
        BY <3>3 DEF UiSystems!setUiRenderer, UiInv, UiFields
      <4> QED BY <4>1, Zenon
    <3>4. ASSUME NEW options, UiSystems!addUiRenderer(s, options)
          PROVE  \E main, extra, removed :
                   state' = UiSystems!Changed([state EXCEPT !.main = main, !.extra = extra,
                                                            !.removed = removed])
      <4>1. state' = UiSystems!Changed([state EXCEPT !.main = state.main,
                        !.extra = [state.extra EXCEPT ![s] = options],
                        !.removed = [state.removed EXCEPT ![s] = FALSE]])
        BY <3>4 DEF UiSystems!addUiRenderer, UiInv, UiFields
      <4> QED BY <4>1, Zenon
    <3> QED BY <1>4, <3>1, <3>2, <3>3, <3>4
  <2> QED BY <1>2, <2>1 DEF UiInv, UiFields
<1>5. ASSUME NEW s \in UiSystems!SystemNames, UiSystems!destroy(s) PROVE UiInv'
  <2> DEFINE d == [state EXCEPT !.live = [state.live EXCEPT ![s] = FALSE]]
             r == UiSystems!resetUiScaleFactor(d, s)
             u == UiSystems!resetInsetArea(r, s)
  <2>1. /\ DOMAIN d = UiFields /\ d.live = [state.live EXCEPT ![s] = FALSE]
        /\ d.uiScaleOwner = state.uiScaleOwner /\ d.uiScaleFactor = state.uiScaleFactor
    BY DEF UiInv, UiFields
  <2>2. state' = UiSystems!Changed(u)
    BY <1>5 DEF UiSystems!destroy
  <2> HIDE DEF d
  <2>3. /\ DOMAIN r = UiFields /\ r.live = d.live
        /\ IF d.uiScaleOwner = s THEN r.uiScaleOwner = none /\ r.uiScaleFactor = 1
           ELSE r.uiScaleOwner = d.uiScaleOwner /\ r.uiScaleFactor = d.uiScaleFactor
    BY <2>1 DEF UiSystems!resetUiScaleFactor, UiFields
  <2> HIDE DEF r
  <2>4. /\ DOMAIN u = UiFields /\ u.live = r.live /\ u.uiScaleOwner = r.uiScaleOwner
        /\ u.uiScaleFactor = r.uiScaleFactor
    BY <2>3 DEF UiSystems!resetInsetArea, UiFields
  <2> HIDE DEF u
  <2>5. DOMAIN u.live = UiSystems!SystemNames
        /\ \A x \in UiSystems!SystemNames \ {s} : u.live[x] = state.live[x]
    BY <2>1, <2>3, <2>4 DEF UiInv
  <2>6. UiOwned(u)
    BY <2>1, <2>3, <2>4, <2>5, Zenon DEF UiInv, UiOwned
  <2> QED BY <2>2, <2>4, <2>5, <2>6, ChangeKeepsOwner
<1>6. CASE UNCHANGED state
  BY <1>6, Zenon DEF UiInv
<1> QED BY <1>1, <1>3, <1>4, <1>5, <1>6 DEF UiSystems!Next

LEMMA UiStarts ==
  ASSUME UiSystems!Init
  PROVE  UiInv
<1>1. /\ DOMAIN state = UiFields /\ state.live = [s \in UiSystems!SystemNames |-> TRUE]
      /\ state.quiet = 0 /\ state.uiScaleFactor = 1 /\ state.uiScaleOwner = UiSystems!NoOwner
  BY DEF UiSystems!Init, UiSystems!UiInit, UiFields
<1>2. DOMAIN state.live = UiSystems!SystemNames /\ state.quiet \in 0 .. 3
      /\ ~(state.quiet >= 1) /\ ~(state.quiet >= 2) /\ state.quiet # 3
  BY <1>1
<1> QED BY <1>1, <1>2, Zenon DEF UiInv, UiOwned

(* Without a system to scale the UI there is no owner, and the scale is 1. *)
LEMMA UiIsScaled ==
  ASSUME UiInv
  PROVE  UiSystems!ScaleIsOfLiveUi
<1>1. state.uiScaleFactor # 1 => state.live[state.uiScaleOwner]
  BY Zenon DEF UiInv, UiOwned
<1>2. ASSUME state.quiet = 3, state.canvas # 0
      PROVE  /\ IF UiSystems!Scaling(state) = {} THEN state.uiScaleFactor = 1
                ELSE Fits(state)
             /\ (\E s \in UiSystems!SystemNames : state.live[s]) => state.insetArea = state.canvas
  <2>1. state.quiet >= 1 /\ state.quiet >= 2
    BY <1>2
  <2> QED BY <1>2, <2>1, Zenon DEF UiInv, UiOwned, OwnerScales, InsetFits
<1> QED BY <1>1, <1>2, Zenon DEF UiSystems!ScaleIsOfLiveUi, Fits

-----------------------------------------------------------------------------
(* Raycasts.                                                               *)
RaycastFields ==
  {"nextTickRaycasts", "callbackOf", "Raycast", "RaycastResult", "registered", "heard"}
RaycastIds == 1 .. MaxRaycasts
PutOffRaycast ==
  [entity : RaycastEntities \ ImmediateEntities, id : RaycastIds, kind : {"once", "continuous"}]

RaycastShape(s) ==
  /\ DOMAIN s = RaycastFields
  /\ s.nextTickRaycasts \in Seq(PutOffRaycast)
  /\ DOMAIN s.callbackOf = RaycastEntities /\ DOMAIN s.Raycast = RaycastEntities
  /\ DOMAIN s.RaycastResult = RaycastEntities
  /\ s.registered \in Seq({"once", "continuous"}) /\ Len(s.registered) <= MaxRaycasts
  /\ s.heard \in [RaycastIds -> {0, 1}]
  /\ \A id \in RaycastIds : id > Len(s.registered) => s.heard[id] = 0

(* A registration not in use any more, or not yet heard.                   *)
StillUnheard(s, id, kind) ==
  /\ id \in 1 .. Len(s.registered) /\ s.registered[id] = kind
  /\ kind = "once" => s.heard[id] = 0

(* Those put off are registrations of their own.                           *)
PutOffOnce(s) ==
  \A i \in DOMAIN s.nextTickRaycasts :
    LET put == s.nextTickRaycasts[i] IN
    /\ StillUnheard(s, put.id, put.kind)
    /\ \A j \in DOMAIN s.nextTickRaycasts : s.nextTickRaycasts[j].id = put.id => i = j
    /\ \A e \in RaycastEntities : s.callbackOf[e] # put.id

(* So are those of the map; their Raycast says what they are.              *)
MappedOnce(s) ==
  \A e \in RaycastEntities : s.callbackOf[e] # 0 =>
    /\ e \notin ImmediateEntities
    /\ StillUnheard(s, s.callbackOf[e], s.registered[s.callbackOf[e]])
    /\ s.Raycast[e] \in {"absent", s.registered[s.callbackOf[e]]}
    /\ \A f \in RaycastEntities : s.callbackOf[f] = s.callbackOf[e] => e = f

RaycastsOnce(s) == RaycastShape(s) /\ PutOffOnce(s) /\ MappedOnce(s)

LEMMA RaycastConstants ==
  /\ MaxRaycasts \in Nat /\ Raycasts!Ids = RaycastIds /\ Raycasts!NoCallback = 0
BY CoreAssumption DEF Raycasts!RaycastsAssumption, Raycasts!Ids, RaycastIds, Raycasts!NoCallback

(* A registration is put off, under an id of its own.                      *)
LEMMA RegisteredOnce ==
  ASSUME NEW s, RaycastsOnce(s), NEW e \in RaycastEntities \ ImmediateEntities,
         NEW kind \in {"once", "continuous"}
  PROVE  RaycastsOnce(Raycasts!Registered(s, e, kind))
<1>1. CASE Len(s.registered) = MaxRaycasts
  BY <1>1 DEF Raycasts!Registered
<1>2. CASE Len(s.registered) # MaxRaycasts
  <2> DEFINE t   == Raycasts!Registered(s, e, kind)
             n   == Len(s.registered)
             q   == s.nextTickRaycasts
             put == [entity |-> e, id |-> n + 1, kind |-> kind]
  <2>1. /\ n \in Nat /\ n + 1 \in RaycastIds /\ put \in PutOffRaycast
        /\ q \in Seq(PutOffRaycast) /\ s.registered \in Seq({"once", "continuous"})
        /\ n + 1 <= MaxRaycasts
    BY <1>2, RaycastConstants DEF RaycastsOnce, RaycastShape, RaycastIds, PutOffRaycast
  <2>2. /\ DOMAIN t = RaycastFields /\ t.registered = Append(s.registered, kind)
        /\ t.nextTickRaycasts = Append(q, put)
        /\ t.callbackOf = s.callbackOf /\ t.Raycast = s.Raycast
        /\ t.RaycastResult = s.RaycastResult /\ t.heard = s.heard
    BY <1>2 DEF Raycasts!Registered, RaycastsOnce, RaycastShape, RaycastFields
  <2> HIDE DEF t
  <2>3. /\ t.registered \in Seq({"once", "continuous"}) /\ Len(t.registered) = n + 1
        /\ \A i \in 1 .. n : t.registered[i] = s.registered[i]
        /\ t.registered[n + 1] = kind
    BY <2>1, <2>2
  <2>4. /\ t.nextTickRaycasts \in Seq(PutOffRaycast)
        /\ DOMAIN t.nextTickRaycasts = 1 .. Len(q) + 1 /\ DOMAIN q = 1 .. Len(q) /\ Len(q) \in Nat
        /\ \A i \in 1 .. Len(q) : t.nextTickRaycasts[i] = q[i]
        /\ t.nextTickRaycasts[Len(q) + 1] = put
    <3> HIDE DEF put, q, n
    <3> QED BY <2>1, <2>2
  <2>5. put.id = n + 1 /\ put.kind = kind /\ s.heard[n + 1] = 0
    BY <2>1 DEF RaycastsOnce, RaycastShape
  <2> HIDE DEF put, q, n
  <2>6. RaycastShape(t)
    <3>1. /\ s.heard \in [RaycastIds -> {0, 1}]
          /\ \A id \in RaycastIds : id > n => s.heard[id] = 0
          /\ DOMAIN s.callbackOf = RaycastEntities /\ DOMAIN s.Raycast = RaycastEntities
          /\ DOMAIN s.RaycastResult = RaycastEntities
      BY DEF RaycastsOnce, RaycastShape, n
    <3>2. \A id \in RaycastIds : id > n + 1 => id > n
      BY <2>1 DEF RaycastIds
    <3> QED BY <2>1, <2>2, <2>3, <2>4, <3>1, <3>2 DEF RaycastShape
  <2>7. \A id, k : StillUnheard(s, id, k) => StillUnheard(t, id, k) /\ id # n + 1
    BY <2>1, <2>2, <2>3 DEF StillUnheard, n
  <2>8. StillUnheard(t, n + 1, kind)
    BY <2>1, <2>2, <2>3, <2>5 DEF StillUnheard
  <2>9. MappedOnce(t)
    <3> SUFFICES ASSUME NEW f \in RaycastEntities, t.callbackOf[f] # 0
                 PROVE  /\ f \notin ImmediateEntities
                        /\ StillUnheard(t, t.callbackOf[f], t.registered[t.callbackOf[f]])
                        /\ t.Raycast[f] \in {"absent", t.registered[t.callbackOf[f]]}
                        /\ \A g \in RaycastEntities : t.callbackOf[g] = t.callbackOf[f] => f = g
      BY DEF MappedOnce
    <3>1. /\ f \notin ImmediateEntities
          /\ StillUnheard(s, s.callbackOf[f], s.registered[s.callbackOf[f]])
          /\ s.Raycast[f] \in {"absent", s.registered[s.callbackOf[f]]}
          /\ \A g \in RaycastEntities : s.callbackOf[g] = s.callbackOf[f] => f = g
      BY <2>2 DEF RaycastsOnce, MappedOnce
    <3>2. s.callbackOf[f] \in 1 .. n
      BY <3>1 DEF StillUnheard, n
    <3>3. t.registered[s.callbackOf[f]] = s.registered[s.callbackOf[f]]
      BY <2>3, <3>2
    <3> QED BY <2>2, <2>7, <3>1, <3>3
  <2>10. \A f \in RaycastEntities : s.callbackOf[f] # n + 1
    BY <2>1, <2>7 DEF RaycastsOnce, MappedOnce
  <2>11. PutOffOnce(t)
    <3> SUFFICES ASSUME NEW i \in 1 .. Len(q) + 1
                 PROVE  LET p == t.nextTickRaycasts[i] IN
                        /\ StillUnheard(t, p.id, p.kind)
                        /\ \A j \in 1 .. Len(q) + 1 : t.nextTickRaycasts[j].id = p.id => i = j
                        /\ \A f \in RaycastEntities : s.callbackOf[f] # p.id
      BY <2>2, <2>4 DEF PutOffOnce
    <3>1. \A k \in 1 .. Len(q) : /\ StillUnheard(s, q[k].id, q[k].kind)
                                 /\ \A j \in 1 .. Len(q) : q[j].id = q[k].id => k = j
                                 /\ \A f \in RaycastEntities : s.callbackOf[f] # q[k].id
      BY <2>4 DEF RaycastsOnce, PutOffOnce, q
    <3>2. \A k \in 1 .. Len(q) : q[k].id # n + 1
      BY <2>7, <3>1
    <3>3. \A k \in 1 .. Len(q) + 1 : k \in 1 .. Len(q) \/ k = Len(q) + 1
      BY <2>4
    <3>4. CASE i = Len(q) + 1
      BY <2>4, <2>5, <2>8, <2>10, <3>2, <3>3, <3>4
    <3>5. CASE i \in 1 .. Len(q)
      BY <2>4, <2>5, <2>7, <3>1, <3>2, <3>3, <3>5
    <3> QED BY <3>3, <3>4, <3>5
  <2>12. RaycastsOnce(t)
    BY <2>6, <2>9, <2>11 DEF RaycastsOnce
  <2> QED BY <2>12 DEF t
<1> QED BY <1>1, <1>2

(* Entries leave the map, Raycasts go; nothing else changes but heard, and *)
(* only for those that left.                                               *)
LEMMA FewerMappedOnce ==
  ASSUME NEW s, RaycastsOnce(s), NEW t, DOMAIN t = RaycastFields,
         t.nextTickRaycasts = s.nextTickRaycasts, t.registered = s.registered,
         DOMAIN t.callbackOf = RaycastEntities, DOMAIN t.Raycast = RaycastEntities,
         DOMAIN t.RaycastResult = RaycastEntities, t.heard \in [RaycastIds -> {0, 1}],
         \A e \in RaycastEntities : t.callbackOf[e] \in {0, s.callbackOf[e]},
         \A e \in RaycastEntities : t.callbackOf[e] # 0 => t.Raycast[e] \in {"absent", s.Raycast[e]},
         \A id \in RaycastIds : t.heard[id] # s.heard[id] =>
           \E e \in RaycastEntities : s.callbackOf[e] = id /\ t.callbackOf[e] = 0
  PROVE  RaycastsOnce(t)
<1>1. MaxRaycasts \in Nat
  BY RaycastConstants
<1>2. /\ Len(s.registered) \in Nat /\ Len(s.registered) <= MaxRaycasts
      /\ s.heard \in [RaycastIds -> {0, 1}]
      /\ \A id \in RaycastIds : id > Len(s.registered) => s.heard[id] = 0
  BY DEF RaycastsOnce, RaycastShape
<1>3. \A e \in RaycastEntities : s.callbackOf[e] # 0 =>
        /\ e \notin ImmediateEntities
        /\ StillUnheard(s, s.callbackOf[e], s.registered[s.callbackOf[e]])
        /\ s.Raycast[e] \in {"absent", s.registered[s.callbackOf[e]]}
        /\ \A f \in RaycastEntities : s.callbackOf[f] = s.callbackOf[e] => e = f
  BY DEF RaycastsOnce, MappedOnce
<1>4. \A e \in RaycastEntities : s.callbackOf[e] # 0 => s.callbackOf[e] \in 1 .. Len(s.registered)
  BY <1>3 DEF StillUnheard
<1>5. ASSUME NEW id \in 1 .. Len(s.registered),
             \A e \in RaycastEntities : s.callbackOf[e] = id => t.callbackOf[e] # 0
      PROVE  t.heard[id] = s.heard[id]
  BY <1>1, <1>2, <1>5 DEF RaycastIds
<1>6. RaycastShape(t)
  <2>1. ASSUME NEW id \in RaycastIds, id > Len(s.registered) PROVE t.heard[id] = 0
    <3>1. id # 0 /\ id \notin 1 .. Len(s.registered)
      BY <1>2, <2>1 DEF RaycastIds
    <3>2. \A e \in RaycastEntities : s.callbackOf[e] # id
      BY <1>4, <3>1
    <3> QED BY <1>2, <2>1, <3>2
  <2> QED BY <2>1 DEF RaycastsOnce, RaycastShape
<1>7. PutOffOnce(t)
  <2> DEFINE q == s.nextTickRaycasts
  <2> SUFFICES ASSUME NEW i \in DOMAIN q
               PROVE  /\ StillUnheard(t, q[i].id, q[i].kind)
                      /\ \A j \in DOMAIN q : q[j].id = q[i].id => i = j
                      /\ \A e \in RaycastEntities : t.callbackOf[e] # q[i].id
    BY DEF PutOffOnce
  <2>1. /\ StillUnheard(s, q[i].id, q[i].kind)
        /\ \A j \in DOMAIN q : q[j].id = q[i].id => i = j
        /\ \A e \in RaycastEntities : s.callbackOf[e] # q[i].id
    BY DEF RaycastsOnce, PutOffOnce
  <2> HIDE DEF q
  <2>2. q[i].id \in 1 .. Len(s.registered) /\ q[i].id # 0
    BY <2>1 DEF StillUnheard
  <2>3. t.heard[q[i].id] = s.heard[q[i].id]
    BY <1>5, <2>1, <2>2
  <2> QED BY <2>1, <2>2, <2>3 DEF StillUnheard
<1>8. MappedOnce(t)
  <2> SUFFICES ASSUME NEW e \in RaycastEntities, t.callbackOf[e] # 0
               PROVE  /\ e \notin ImmediateEntities
                      /\ StillUnheard(t, t.callbackOf[e], t.registered[t.callbackOf[e]])
                      /\ t.Raycast[e] \in {"absent", t.registered[t.callbackOf[e]]}
                      /\ \A f \in RaycastEntities : t.callbackOf[f] = t.callbackOf[e] => e = f
    BY DEF MappedOnce
  <2> DEFINE id == s.callbackOf[e]
  <2>1. t.callbackOf[e] = id /\ id # 0 /\ id \in 1 .. Len(s.registered)
    BY <1>4
  <2>2. \A f \in RaycastEntities : s.callbackOf[f] = id => f = e
    BY <1>3, <2>1
  <2>3. t.heard[id] = s.heard[id]
    BY <1>5, <2>1, <2>2
  <2>4. StillUnheard(t, id, t.registered[id])
    BY <1>3, <2>1, <2>3 DEF StillUnheard
  <2>5. \A f \in RaycastEntities : t.callbackOf[f] = id => e = f
    BY <2>1, <2>2
  <2>6. t.Raycast[e] \in {"absent", t.registered[id]}
    BY <1>3, <2>1
  <2> QED BY <1>3, <2>1, <2>4, <2>5, <2>6
<1> QED BY <1>6, <1>7, <1>8 DEF RaycastsOnce

(* removeRaycast, and what removing an entity does.                        *)
LEMMA RemovedOnce ==
  ASSUME NEW s, RaycastsOnce(s), NEW e \in RaycastEntities
  PROVE  /\ RaycastsOnce(Raycasts!removeRaycast(s, e))
         /\ RaycastsOnce([s EXCEPT !.Raycast[e] = "absent", !.RaycastResult[e] = FALSE])
         /\ RaycastsOnce([s EXCEPT !.RaycastResult[e] = TRUE])
<1>1. ASSUME NEW t, DOMAIN t = RaycastFields,
             \A f \in {"nextTickRaycasts", "registered", "heard"} : t[f] = s[f],
             t.callbackOf \in {s.callbackOf, [s.callbackOf EXCEPT ![e] = 0]},
             t.Raycast \in {s.Raycast, [s.Raycast EXCEPT ![e] = "absent"]},
             DOMAIN t.RaycastResult = RaycastEntities
      PROVE  RaycastsOnce(t)
  <2>1. /\ t.nextTickRaycasts = s.nextTickRaycasts /\ t.registered = s.registered
        /\ t.heard = s.heard
    BY <1>1
  <2>2. /\ DOMAIN t.callbackOf = RaycastEntities /\ DOMAIN t.Raycast = RaycastEntities
        /\ t.heard \in [RaycastIds -> {0, 1}]
        /\ \A f \in RaycastEntities : /\ t.callbackOf[f] \in {0, s.callbackOf[f]}
                                      /\ t.Raycast[f] \in {"absent", s.Raycast[f]}
    BY <1>1, <2>1 DEF RaycastsOnce, RaycastShape
  <2> QED BY <1>1, <2>1, <2>2, FewerMappedOnce
<1>2. RaycastsOnce(Raycasts!removeRaycast(s, e))
  <2> DEFINE t == Raycasts!removeRaycast(s, e)
  <2>1. /\ DOMAIN t = RaycastFields
        /\ \A f \in {"nextTickRaycasts", "registered", "heard"} : t[f] = s[f]
        /\ t.callbackOf = [s.callbackOf EXCEPT ![e] = 0]
        /\ t.Raycast = [s.Raycast EXCEPT ![e] = "absent"]
        /\ DOMAIN t.RaycastResult = RaycastEntities
    BY RaycastConstants DEF Raycasts!removeRaycast, RaycastsOnce, RaycastShape, RaycastFields
  <2> HIDE DEF t
  <2>2. RaycastsOnce(t)
    BY <1>1, <2>1
  <2> QED BY <2>2 DEF t
<1>3. RaycastsOnce([s EXCEPT !.Raycast[e] = "absent", !.RaycastResult[e] = FALSE])
  <2> DEFINE t == [s EXCEPT !.Raycast[e] = "absent", !.RaycastResult[e] = FALSE]
  <2>1. /\ DOMAIN t = RaycastFields
        /\ \A f \in {"nextTickRaycasts", "registered", "heard"} : t[f] = s[f]
        /\ t.callbackOf = s.callbackOf
        /\ t.Raycast = [s.Raycast EXCEPT ![e] = "absent"]
        /\ DOMAIN t.RaycastResult = RaycastEntities
    BY DEF RaycastsOnce, RaycastShape, RaycastFields
  <2> HIDE DEF t
  <2>2. RaycastsOnce(t)
    BY <1>1, <2>1
  <2> QED BY <2>2 DEF t
<1>4. RaycastsOnce([s EXCEPT !.RaycastResult[e] = TRUE])
  <2> DEFINE t == [s EXCEPT !.RaycastResult[e] = TRUE]
  <2>1. /\ DOMAIN t = RaycastFields
        /\ \A f \in {"nextTickRaycasts", "registered", "heard"} : t[f] = s[f]
        /\ t.callbackOf = s.callbackOf /\ t.Raycast = s.Raycast
        /\ DOMAIN t.RaycastResult = RaycastEntities
    BY DEF RaycastsOnce, RaycastShape, RaycastFields
  <2> HIDE DEF t
  <2>2. RaycastsOnce(t)
    BY <1>1, <2>1
  <2> QED BY <2>2 DEF t
<1> QED BY <1>2, <1>3, <1>4

(* Those put off are put in the map, the last of each entity.              *)
LEMMA NextTickOnce ==
  ASSUME NEW s, RaycastsOnce(s)
  PROVE  RaycastsOnce(Raycasts!onNextTick(s))
<1> DEFINE t == Raycasts!onNextTick(s)
           q == s.nextTickRaycasts
<1>0. q \in Seq(PutOffRaycast) /\ Len(q) \in Nat /\ DOMAIN q = 1 .. Len(q)
  BY DEF RaycastsOnce, RaycastShape
<1>1. /\ DOMAIN t = RaycastFields /\ t.nextTickRaycasts = <<>>
      /\ t.registered = s.registered /\ t.heard = s.heard /\ t.RaycastResult = s.RaycastResult
      /\ t.Raycast = [e \in RaycastEntities |->
           IF Raycasts!PutOff(s, e) = {} THEN s.Raycast[e] ELSE Raycasts!LastPutOff(s, e).kind]
      /\ t.callbackOf = [e \in RaycastEntities |->
           IF Raycasts!PutOff(s, e) = {} THEN s.callbackOf[e] ELSE Raycasts!LastPutOff(s, e).id]
  BY DEF Raycasts!onNextTick, RaycastsOnce, RaycastShape, RaycastFields
<1> HIDE DEF t
<1>2. ASSUME NEW e \in RaycastEntities, Raycasts!PutOff(s, e) # {}
      PROVE  \E i \in DOMAIN q : /\ q[i].entity = e /\ Raycasts!LastPutOff(s, e) = q[i]
  <2> DEFINE S == Raycasts!PutOff(s, e)
  <2>1. S \in SUBSET Int /\ \A i \in S : i <= Len(q) /\ i \in DOMAIN q /\ q[i].entity = e
    BY <1>0 DEF Raycasts!PutOff
  <2>2. Raycasts!Max(S) = Max(S)
    BY DEF Raycasts!Max, Max
  <2>4. S # {}
    BY <1>2
  <2> HIDE DEF S
  <2>3. Max(S) \in S
    <3>1. Len(q) \in Int /\ \A x \in S : x <= Len(q)
      BY <1>0, <2>1
    <3> HIDE DEF q
    <3> QED BY <2>1, <2>4, <3>1, MaxIsGreatest
  <2> QED BY <2>1, <2>2, <2>3 DEF Raycasts!LastPutOff, S
<1>3. \A i \in DOMAIN q :
        /\ StillUnheard(s, q[i].id, q[i].kind) /\ q[i].entity \notin ImmediateEntities
        /\ q[i].id # 0
        /\ \A j \in DOMAIN q : q[j].id = q[i].id => i = j
        /\ \A e \in RaycastEntities : s.callbackOf[e] # q[i].id
  <2> TAKE i \in DOMAIN q
  <2>1. q[i] \in PutOffRaycast
    BY <1>0
  <2> QED BY <2>1 DEF RaycastsOnce, PutOffOnce, PutOffRaycast, RaycastIds
<1>4. ASSUME NEW e \in RaycastEntities, t.callbackOf[e] # 0
      PROVE  /\ e \notin ImmediateEntities
             /\ StillUnheard(t, t.callbackOf[e], t.registered[t.callbackOf[e]])
             /\ t.Raycast[e] \in {"absent", t.registered[t.callbackOf[e]]}
  <2>1. CASE Raycasts!PutOff(s, e) = {}
    <3>1. t.callbackOf[e] = s.callbackOf[e] /\ t.Raycast[e] = s.Raycast[e]
      BY <1>1, <2>1
    <3> QED BY <1>1, <1>4, <3>1 DEF RaycastsOnce, MappedOnce, StillUnheard
  <2>2. CASE Raycasts!PutOff(s, e) # {}
    <3>1. PICK i \in DOMAIN q : q[i].entity = e /\ Raycasts!LastPutOff(s, e) = q[i]
      BY <1>2, <2>2
    <3>2. t.callbackOf[e] = q[i].id /\ t.Raycast[e] = q[i].kind
      BY <1>1, <2>2, <3>1
    <3>3. t.registered[q[i].id] = q[i].kind
      BY <1>1, <1>3, <3>1 DEF StillUnheard
    <3> QED BY <1>1, <1>3, <3>1, <3>2, <3>3 DEF StillUnheard
  <2> QED BY <2>1, <2>2
<1>5. ASSUME NEW e \in RaycastEntities, NEW f \in RaycastEntities,
             t.callbackOf[e] # 0, t.callbackOf[f] = t.callbackOf[e]
      PROVE  e = f
  <2>1. CASE Raycasts!PutOff(s, e) = {} /\ Raycasts!PutOff(s, f) = {}
    BY <1>1, <1>5, <2>1 DEF RaycastsOnce, MappedOnce
  <2>2. CASE Raycasts!PutOff(s, e) # {} /\ Raycasts!PutOff(s, f) # {}
    BY <1>1, <1>2, <1>3, <1>5, <2>2
  <2>3. CASE Raycasts!PutOff(s, e) = {} /\ Raycasts!PutOff(s, f) # {}
    BY <1>1, <1>2, <1>3, <1>5, <2>3
  <2>4. CASE Raycasts!PutOff(s, e) # {} /\ Raycasts!PutOff(s, f) = {}
    BY <1>1, <1>2, <1>3, <1>5, <2>4
  <2> QED BY <2>1, <2>2, <2>3, <2>4
<1>6. MappedOnce(t)
  BY <1>4, <1>5 DEF MappedOnce
<1>7. <<>> \in Seq(PutOffRaycast) /\ DOMAIN <<>> = {}
  OBVIOUS
<1>8. RaycastShape(t) /\ PutOffOnce(t)
  BY <1>1, <1>7 DEF RaycastsOnce, RaycastShape, PutOffOnce
<1> QED BY <1>6, <1>8 DEF RaycastsOnce, t

(* A visit answers a registration that is not continuous and drops it.     *)
LEMMA VisitedOnce ==
  ASSUME NEW s, RaycastsOnce(s), NEW walked \in SUBSET RaycastEntities
  PROVE  RaycastsOnce(Raycasts!Visited(s, walked))
<1> DEFINE t == Raycasts!Visited(s, walked)
           dropped == Raycasts!Dropped(s, walked)
           gone == dropped \cup Raycasts!Forgotten(s, walked)
<1>1. /\ DOMAIN t = RaycastFields /\ t.nextTickRaycasts = s.nextTickRaycasts
      /\ t.registered = s.registered
      /\ t.heard = [id \in RaycastIds |-> IF Raycasts!Heard(s, walked, id) THEN s.heard[id] + 1
                                          ELSE s.heard[id]]
      /\ t.Raycast = [e \in RaycastEntities |-> IF e \in dropped THEN "absent" ELSE s.Raycast[e]]
      /\ t.RaycastResult = [e \in RaycastEntities |-> s.RaycastResult[e] /\ e \notin dropped]
      /\ t.callbackOf = [e \in RaycastEntities |-> IF e \in gone THEN 0 ELSE s.callbackOf[e]]
  BY RaycastConstants DEF Raycasts!Visited, RaycastsOnce, RaycastShape, RaycastFields
<1> HIDE DEF t, dropped, gone
<1>2. ASSUME NEW id \in RaycastIds, Raycasts!Heard(s, walked, id)
      PROVE  /\ \E e \in RaycastEntities : s.callbackOf[e] = id /\ t.callbackOf[e] = 0
             /\ s.heard[id] = 0
  <2>1. PICK e \in Raycasts!Answered(s, walked) :
          s.callbackOf[e] = id /\ s.registered[id] = "once"
    BY <1>2 DEF Raycasts!Heard
  <2>2. e \in RaycastEntities /\ s.callbackOf[e] # 0 /\ s.Raycast[e] # "absent"
    BY <2>1, RaycastConstants DEF Raycasts!Answered, Raycasts!Forgotten
  <2>3. s.Raycast[e] = "once" /\ s.heard[id] = 0
    BY <2>1, <2>2 DEF RaycastsOnce, MappedOnce, StillUnheard
  <2>4. e \in gone
    BY <2>1, <2>3 DEF gone, dropped, Raycasts!Dropped
  <2> QED BY <1>1, <2>1, <2>2, <2>3, <2>4
<1>3. \A id \in RaycastIds : s.heard[id] \in {0, 1}
  BY DEF RaycastsOnce, RaycastShape
<1>4. t.heard \in [RaycastIds -> {0, 1}]
  BY <1>1, <1>2, <1>3
<1>5. \A id \in RaycastIds : t.heard[id] # s.heard[id] =>
        \E e \in RaycastEntities : s.callbackOf[e] = id /\ t.callbackOf[e] = 0
  BY <1>1, <1>2
<1>6. /\ DOMAIN t.callbackOf = RaycastEntities /\ DOMAIN t.Raycast = RaycastEntities
      /\ DOMAIN t.RaycastResult = RaycastEntities
      /\ \A e \in RaycastEntities : /\ t.callbackOf[e] \in {0, s.callbackOf[e]}
                                    /\ t.Raycast[e] \in {"absent", s.Raycast[e]}
  BY <1>1
<1>7. RaycastsOnce(t)
  BY <1>1, <1>4, <1>5, <1>6, FewerMappedOnce
<1> QED BY <1>7 DEF t

RaycastInv == RaycastsOnce(state)

LEMMA RaycastStep ==
  ASSUME RaycastInv, Raycasts!Next \/ UNCHANGED <<state, entityState>>
  PROVE  RaycastInv'
<1>1. CASE Raycasts!RaycastEventSystem
  <2> DEFINE added == Raycasts!onNextTick(state)
  <2>1. PICK before \in SUBSET RaycastEntities, reaction \in Raycasts!Reactions :
          state' = Raycasts!Visited(
                     IF Raycasts!Answered(added, before) = {} THEN Raycasts!Visited(added, before)
                     ELSE Raycasts!React(Raycasts!Visited(added, before), reaction),
                     RaycastEntities \ before)
    BY <1>1 DEF Raycasts!RaycastEventSystem
  <2>2. RaycastsOnce(added)
    BY NextTickOnce DEF RaycastInv
  <2> HIDE DEF added
  <2> DEFINE answered == Raycasts!Visited(added, before)
  <2>3. RaycastsOnce(answered)
    BY <2>2, VisitedOnce
  <2> HIDE DEF answered
  <2>4. RaycastsOnce(Raycasts!React(answered, reaction))
    <3>1. CASE reaction.call = "remove"
      <4>1. reaction.entity \in RaycastEntities
        BY <2>1, <3>1 DEF Raycasts!Reactions
      <4> QED BY <2>3, <3>1, <4>1, RemovedOnce DEF Raycasts!React
    <3>2. CASE reaction.call = "register"
      <4>1. /\ reaction.entity \in RaycastEntities \ ImmediateEntities
            /\ reaction.kind \in {"once", "continuous"}
        BY <2>1, <3>2 DEF Raycasts!Reactions
      <4> QED BY <2>3, <3>2, <4>1, RegisteredOnce DEF Raycasts!React
    <3>3. CASE reaction.call \notin {"remove", "register"}
      BY <2>3, <3>3 DEF Raycasts!React
    <3> QED BY <3>1, <3>2, <3>3
  <2> DEFINE reacted == IF Raycasts!Answered(added, before) = {} THEN answered
                        ELSE Raycasts!React(answered, reaction)
  <2>5. RaycastsOnce(reacted)
    BY <2>3, <2>4
  <2>6. state' = Raycasts!Visited(reacted, RaycastEntities \ before)
    BY <2>1 DEF answered
  <2> HIDE DEF reacted
  <2>7. RaycastsOnce(Raycasts!Visited(reacted, RaycastEntities \ before))
    BY <2>5, VisitedOnce
  <2> QED BY <2>6, <2>7 DEF RaycastInv
<1>2. ASSUME NEW e \in RaycastEntities,
             Raycasts!removeRaycasterEntity(e) \/ Raycasts!RendererAnswers(e) \/ Raycasts!RemoveEntity(e)
      PROVE  RaycastInv'
  <2>1. /\ RaycastsOnce(Raycasts!removeRaycast(state, e))
        /\ RaycastsOnce([state EXCEPT !.Raycast[e] = "absent", !.RaycastResult[e] = FALSE])
        /\ RaycastsOnce([state EXCEPT !.RaycastResult[e] = TRUE])
    BY RemovedOnce DEF RaycastInv
  <2> QED BY <1>2, <2>1, Zenon DEF RaycastInv, Raycasts!removeRaycasterEntity,
                                   Raycasts!RendererAnswers, Raycasts!RemoveEntity
<1>3. ASSUME NEW e \in RaycastEntities, NEW kind \in {"once", "continuous"},
             Raycasts!registerRaycastWithCallback(e, kind)
      PROVE  RaycastInv'
  BY <1>3, RegisteredOnce DEF RaycastInv, Raycasts!registerRaycastWithCallback
<1>4. ASSUME NEW e \in RaycastEntities, NEW kind \in {"once", "continuous"},
             Raycasts!registerRaycast(e, kind)
      PROVE  RaycastInv'
  <2>1. e \in ImmediateEntities
    BY <1>4 DEF Raycasts!registerRaycast
  <2>2. state' \in {[state EXCEPT !.Raycast[e] = "absent", !.RaycastResult[e] = FALSE],
                    [state EXCEPT !.Raycast[e] = kind], state}
    BY <1>4 DEF Raycasts!registerRaycast
  <2>3. CASE state' = [state EXCEPT !.Raycast[e] = kind]
    <3>1. /\ DOMAIN state' = RaycastFields
          /\ \A f \in RaycastFields \ {"Raycast"} : state'[f] = state[f]
          /\ DOMAIN state'.Raycast = RaycastEntities
          /\ \A f \in RaycastEntities \ {e} : state'.Raycast[f] = state.Raycast[f]
      BY <2>3 DEF RaycastInv, RaycastsOnce, RaycastShape, RaycastFields
    <3>2. /\ state'.nextTickRaycasts = state.nextTickRaycasts
          /\ state'.registered = state.registered /\ state'.callbackOf = state.callbackOf
          /\ state'.RaycastResult = state.RaycastResult /\ state'.heard = state.heard
      BY <3>1 DEF RaycastFields
    <3>3. state.callbackOf[e] = 0
      BY <2>1 DEF RaycastInv, RaycastsOnce, MappedOnce
    <3>4. \A f \in RaycastEntities : state'.callbackOf[f] # 0 =>
            state'.Raycast[f] \in {"absent", state.Raycast[f]}
      BY <3>1, <3>2, <3>3
    <3>5. /\ DOMAIN state.callbackOf = RaycastEntities
          /\ DOMAIN state.RaycastResult = RaycastEntities /\ state.heard \in [RaycastIds -> {0, 1}]
      BY DEF RaycastInv, RaycastsOnce, RaycastShape
    <3> QED BY <3>1, <3>2, <3>4, <3>5, FewerMappedOnce DEF RaycastInv
  <2>4. /\ RaycastsOnce([state EXCEPT !.Raycast[e] = "absent", !.RaycastResult[e] = FALSE])
        /\ RaycastsOnce(state)
    BY RemovedOnce DEF RaycastInv
  <2> QED BY <2>2, <2>3, <2>4, Zenon DEF RaycastInv
<1>5. CASE UNCHANGED <<state, entityState>>
  BY <1>5 DEF RaycastInv
<1> QED BY <1>1, <1>2, <1>3, <1>4, <1>5 DEF Raycasts!Next

LEMMA RaycastsStart ==
  ASSUME Raycasts!Init
  PROVE  RaycastInv
<1>1. /\ DOMAIN state = RaycastFields /\ state.nextTickRaycasts = <<>> /\ state.registered = <<>>
      /\ state.callbackOf = [e \in RaycastEntities |-> 0]
      /\ DOMAIN state.Raycast = RaycastEntities /\ DOMAIN state.RaycastResult = RaycastEntities
      /\ state.heard = [id \in RaycastIds |-> 0]
  BY RaycastConstants DEF Raycasts!Init, Raycasts!RaycastInit, RaycastFields
<1>2. <<>> \in Seq(PutOffRaycast) /\ <<>> \in Seq({"once", "continuous"}) /\ Len(<<>>) = 0
      /\ DOMAIN <<>> = {}
  OBVIOUS
<1>3. RaycastShape(state)
  BY <1>1, <1>2, RaycastConstants DEF RaycastShape
<1> QED BY <1>1, <1>2, <1>3 DEF RaycastInv, RaycastsOnce, PutOffOnce, MappedOnce

LEMMA RaycastsHeardOnce ==
  ASSUME RaycastInv
  PROVE  Raycasts!HeardAtMostOnce
<1>1. ASSUME NEW id \in DOMAIN state.registered PROVE state.heard[id] <= 1
  <2>1. id \in RaycastIds
    BY RaycastConstants DEF RaycastInv, RaycastsOnce, RaycastShape, RaycastIds
  <2>2. state.heard[id] \in {0, 1}
    BY <2>1 DEF RaycastInv, RaycastsOnce, RaycastShape
  <2> QED BY <2>2
<1> QED BY <1>1 DEF Raycasts!HeardAtMostOnce

-----------------------------------------------------------------------------
(* Media events.                                                           *)
MediaFields == {"kind", "entry", "row", "heard", "player"}
EntryFields == {"registered", "lastLength", "lastState"}

(* What the callback of an asset got is the row up to the length kept; of  *)
(* an audio or a video, the last state it got is the one kept.             *)
AssetHeard(m) ==
  m.entry.lastLength \in 0 .. Len(m.row) /\ m.heard = SubSeq(m.row, 1, m.entry.lastLength)

StateHeard(m) ==
  /\ m.heard # <<>> => m.entry.lastState = m.heard[Len(m.heard)]
  /\ \A i \in 1 .. Len(m.heard) - 1 : m.heard[i] # m.heard[i + 1]

MediaHeard(m, es) ==
  /\ DOMAIN m = MediaFields /\ DOMAIN m.entry = EntryFields
  /\ m.row \in Seq(MediaStates) /\ m.heard \in Seq(MediaStates) /\ m.entry.lastLength \in Nat
  /\ ~m.entry.registered => m.entry = Media!NoEntry /\ m.heard = <<>>
  /\ IF m.kind = "asset" THEN es = "used" => AssetHeard(m) ELSE StateHeard(m)

MediaInv ==
  /\ state = [e \in MediaEntities |-> state[e]]
  /\ entityState = [e \in MediaEntities |-> entityState[e]]
  /\ \A e \in MediaEntities : MediaHeard(state[e], entityState[e])

LEMMA NothingHeard ==
  ASSUME NEW m, NEW es, DOMAIN m = MediaFields, DOMAIN m.entry = EntryFields,
         m.row \in Seq(MediaStates), m.heard = <<>>, m.entry.lastLength = 0,
         ~m.entry.registered => m.entry = Media!NoEntry
  PROVE  MediaHeard(m, es)
<1>1. SubSeq(m.row, 1, 0) = <<>> /\ 0 \in 0 .. Len(m.row) /\ <<>> \in Seq(MediaStates)
  OBVIOUS
<1>2. AssetHeard(m) /\ StateHeard(m)
  BY <1>1 DEF AssetHeard, StateHeard
<1> QED BY <1>1, <1>2 DEF MediaHeard

LEMMA UnregisteredHeard ==
  ASSUME NEW m, NEW es, MediaHeard(m, es)
  PROVE  LET u == Media!Unregistered(m) IN
         /\ MediaHeard(u, es) /\ MediaHeard([u EXCEPT !.entry.registered = TRUE], es)
         /\ u.kind = m.kind /\ u.row = m.row
<1> DEFINE u == Media!Unregistered(m)
           v == [u EXCEPT !.entry.registered = TRUE]
<1>1. /\ DOMAIN u = MediaFields /\ u.entry = Media!NoEntry /\ u.heard = <<>>
      /\ u.row = m.row /\ u.kind = m.kind
  BY DEF Media!Unregistered, MediaHeard, MediaFields
<1>2. DOMAIN Media!NoEntry = EntryFields /\ Media!NoEntry.lastLength = 0
  BY DEF Media!NoEntry, EntryFields
<1> HIDE DEF u
<1>3. /\ DOMAIN v = MediaFields /\ v.entry = [u.entry EXCEPT !.registered = TRUE]
      /\ v.heard = <<>> /\ v.row = m.row
  BY <1>1 DEF MediaFields
<1>4. DOMAIN v.entry = EntryFields /\ v.entry.lastLength = 0 /\ v.entry.registered
  BY <1>1, <1>2, <1>3 DEF EntryFields
<1> HIDE DEF v
<1>5. MediaHeard(u, es)
  BY <1>1, <1>2, NothingHeard DEF MediaHeard
<1>6. MediaHeard(v, es)
  BY <1>3, <1>4, NothingHeard DEF MediaHeard
<1> QED BY <1>1, <1>5, <1>6 DEF u, v

(* What is registered already, or remembers nothing, may be registered.    *)
LEMMA RegisteredHeard ==
  ASSUME NEW m, NEW es, MediaHeard(m, es)
  PROVE  MediaHeard([m EXCEPT !.entry.registered = TRUE], es)
<1> DEFINE v == [m EXCEPT !.entry.registered = TRUE]
<1>1. /\ DOMAIN v = MediaFields /\ v.entry = [m.entry EXCEPT !.registered = TRUE]
      /\ v.heard = m.heard /\ v.row = m.row /\ v.kind = m.kind
  BY DEF MediaHeard, MediaFields
<1>2. /\ DOMAIN v.entry = EntryFields /\ v.entry.registered
      /\ v.entry.lastLength = m.entry.lastLength /\ v.entry.lastState = m.entry.lastState
  BY <1>1 DEF MediaHeard, EntryFields
<1> HIDE DEF v
<1>3. MediaHeard(v, es)
  BY <1>1, <1>2 DEF MediaHeard, AssetHeard, StateHeard
<1> QED BY <1>3 DEF v

(* What comes since the length kept follows what came before.              *)
LEMMA AssetNewsFollow ==
  ASSUME NEW row \in Seq(MediaStates), NEW k \in 0 .. Len(row)
  PROVE  /\ SubSeq(row, 1, k) \o SubSeq(row, k + 1, Len(row)) = SubSeq(row, 1, Len(row))
         /\ SubSeq(row, k + 1, Len(row)) \in Seq(MediaStates)
<1>1. 1 \in 1 .. Len(row) + 1 /\ k \in 1 - 1 .. Len(row) /\ Len(row) \in k .. Len(row)
  OBVIOUS
<1>2. SubSeq(row, 1, k) \o SubSeq(row, k + 1, Len(row)) = SubSeq(row, 1, Len(row))
  BY <1>1, ConcatAdjacentSubSeq
<1>3. SubSeq(row, k + 1, Len(row)) \in Seq(MediaStates)
  OBVIOUS
<1> QED BY <1>2, <1>3

LEMMA VisitHears ==
  ASSUME NEW m, NEW e, NEW es, MediaHeard(m, es), es = "used" <=> entityState[e] = "used"
  PROVE  LET v == Media!Visit(m, e) IN MediaHeard(v, es) /\ v.kind = m.kind /\ v.row = m.row
<1> DEFINE news == Media!News(m)
           v == Media!Visit(m, e)
           entry == [registered |-> TRUE,
                     lastLength |-> IF m.kind = "asset" THEN Len(m.row) ELSE 0,
                     lastState  |-> IF m.kind = "asset" THEN Media!Unknown ELSE m.row[Len(m.row)]]
<1>1. CASE ~m.entry.registered
  BY <1>1 DEF Media!Visit
<1>2. CASE m.entry.registered /\ Media!IsGone(m, e)
  BY <1>2, UnregisteredHeard DEF Media!Visit
<1>3. CASE m.entry.registered /\ ~Media!IsGone(m, e) /\ news = <<>>
  BY <1>3 DEF Media!Visit
<1>4. CASE m.entry.registered /\ ~Media!IsGone(m, e) /\ news # <<>>
  <2>1. v = [[m EXCEPT !.heard = m.heard \o news] EXCEPT !.entry = entry]
    BY <1>4 DEF Media!Visit
  <2>2. /\ DOMAIN v = MediaFields /\ v.heard = m.heard \o news /\ v.entry = entry
        /\ v.row = m.row /\ v.kind = m.kind
    BY <2>1 DEF MediaHeard, MediaFields
  <2>3. DOMAIN entry = EntryFields /\ entry.registered
    BY DEF EntryFields
  <2>4. entry.lastLength = IF m.kind = "asset" THEN Len(m.row) ELSE 0
    OBVIOUS
  <2>5. m.kind # "asset" => entry.lastState = m.row[Len(m.row)]
    OBVIOUS
  <2>6. m.row \in Seq(MediaStates) /\ m.heard \in Seq(MediaStates) /\ Len(m.row) \in Nat
    BY DEF MediaHeard
  <2> HIDE DEF v, entry
  <2>7. ASSUME m.kind = "asset", es = "used" PROVE MediaHeard(v, es)
    <3>1. news = SubSeq(m.row, m.entry.lastLength + 1, Len(m.row)) /\ AssetHeard(m)
      BY <2>7 DEF Media!News, Media!NewsOfAsset, MediaHeard
    <3>2. news \in Seq(MediaStates) /\ v.heard = SubSeq(m.row, 1, Len(m.row))
      BY <2>2, <2>6, <3>1, AssetNewsFollow DEF AssetHeard
    <3> HIDE DEF news
    <3>3. v.heard \in Seq(MediaStates) /\ Len(m.row) \in 0 .. Len(m.row)
      BY <2>2, <2>6, <3>2
    <3> QED BY <2>2, <2>3, <2>4, <2>6, <2>7, <3>2, <3>3 DEF MediaHeard, AssetHeard
  <2>8. ASSUME m.kind = "asset", es # "used" PROVE MediaHeard(v, es)
    <3>1. news = SubSeq(m.row, m.entry.lastLength + 1, Len(m.row))
      BY <2>8 DEF Media!News, Media!NewsOfAsset
    <3>2. news \in Seq(MediaStates)
      <4>1. m.entry.lastLength \in Nat
        BY DEF MediaHeard
      <4> QED BY <2>6, <3>1, <4>1
    <3> HIDE DEF news
    <3>3. v.heard \in Seq(MediaStates)
      BY <2>2, <2>6, <3>2
    <3> QED BY <2>2, <2>3, <2>4, <2>6, <2>8, <3>3 DEF MediaHeard
  <2>9. ASSUME m.kind # "asset" PROVE MediaHeard(v, es)
    <3> DEFINE last == m.row[Len(m.row)]
               n == Len(m.heard)
    <3>1. m.row # <<>> /\ m.entry.lastState # last /\ news = <<last>>
      BY <1>4, <2>9 DEF Media!News, Media!NewsOfState
    <3>2. last \in MediaStates /\ n \in Nat
      BY <2>6, <3>1
    <3> HIDE DEF last, news
    <3>3. /\ v.heard \in Seq(MediaStates) /\ Len(v.heard) = n + 1 /\ v.heard[n + 1] = last
          /\ \A i \in 1 .. n : v.heard[i] = m.heard[i]
      BY <2>2, <2>6, <3>1, <3>2
    <3>4. StateHeard(m)
      BY <2>9 DEF MediaHeard
    <3>5. ASSUME NEW i \in 1 .. n PROVE v.heard[i] # v.heard[i + 1]
      <4>1. CASE i = n
        <5>1. m.heard # <<>>
          BY <2>6, <3>2, <3>5
        <5>2. m.entry.lastState = m.heard[n]
          BY <3>4, <5>1 DEF StateHeard
        <5> QED BY <3>1, <3>3, <3>5, <4>1, <5>2
      <4>2. CASE i # n
        <5>1. i \in 1 .. n - 1 /\ i + 1 \in 1 .. n
          BY <3>2, <3>5, <4>2
        <5> QED BY <3>3, <3>4, <3>5, <5>1 DEF StateHeard
      <4> QED BY <4>1, <4>2
    <3>6. StateHeard(v)
      <4>1. v.entry.lastState = last
        BY <2>2, <2>5, <2>9 DEF last
      <4>2. Len(v.heard) - 1 = n
        BY <3>2, <3>3
      <4> HIDE DEF n
      <4> QED BY <3>3, <3>5, <4>1, <4>2 DEF StateHeard
    <3> QED BY <2>2, <2>3, <2>4, <2>6, <2>9, <3>3, <3>6 DEF MediaHeard
  <2>10. MediaHeard(v, es)
    BY <2>7, <2>8, <2>9
  <2> QED BY <2>2, <2>10 DEF v
<1> QED BY <1>1, <1>2, <1>3, <1>4

LEMMA MediaStep ==
  ASSUME MediaInv, Media!Next \/ UNCHANGED <<state, entityState>>
  PROVE  MediaInv'
<1>1. CASE Media!MediaEventsSystem
  <2>1. /\ state' = [e \in MediaEntities |-> Media!Visit(state[e], e)]
        /\ entityState' = [e \in MediaEntities |-> IF entityState[e] = "removing"
                                                   THEN "removed" ELSE entityState[e]]
    BY <1>1 DEF Media!MediaEventsSystem
  <2>2. ASSUME NEW e \in MediaEntities PROVE MediaHeard(state'[e], entityState'[e])
    <3>1. /\ state'[e] = Media!Visit(state[e], e)
          /\ entityState'[e] = "used" <=> entityState[e] = "used"
      BY <2>1
    <3>2. MediaHeard(Media!Visit(state[e], e), entityState[e])
      BY VisitHears DEF MediaInv
    <3> QED BY <3>1, <3>2 DEF MediaHeard
  <2> QED BY <2>1, <2>2 DEF MediaInv
<1>2. ASSUME NEW e \in MediaEntities, NEW m, state' = [state EXCEPT ![e] = m],
             entityState' = entityState
                \/ entityState' = [entityState EXCEPT ![e] = "removing"],
             MediaHeard(m, entityState'[e])
      PROVE  MediaInv'
  <2>1. /\ state' = [f \in MediaEntities |-> state'[f]] /\ state'[e] = m
        /\ entityState' = [f \in MediaEntities |-> entityState'[f]]
        /\ \A f \in MediaEntities \ {e} : state'[f] = state[f] /\ entityState'[f] = entityState[f]
    BY <1>2 DEF MediaInv
  <2> QED BY <1>2, <2>1 DEF MediaInv
<1>3. ASSUME NEW e \in MediaEntities PROVE MediaHeard(state[e], entityState[e])
  BY DEF MediaInv
<1>4. ASSUME NEW e \in MediaEntities,
             \/ Media!registerAssetLoadLoadingStateEntity(e)
             \/ Media!registerVideoEventsEntity(e)
             \/ Media!registerAudioEventsEntity(e)
             \/ Media!removeEntity(e)
      PROVE  MediaInv'
  <2>1. entityState' = entityState
    BY <1>4 DEF Media!registerAssetLoadLoadingStateEntity, Media!registerVideoEventsEntity,
                Media!registerAudioEventsEntity, Media!removeEntity
  <2>2. /\ MediaHeard([state[e] EXCEPT !.entry.registered = TRUE], entityState[e])
        /\ MediaHeard(Media!Unregistered(state[e]), entityState[e])
        /\ MediaHeard([Media!Unregistered(state[e]) EXCEPT !.entry.registered = TRUE],
                      entityState[e])
    BY <1>3, RegisteredHeard, UnregisteredHeard
  <2>3. \/ state' = [state EXCEPT ![e] = [state[e] EXCEPT !.entry.registered = TRUE]]
        \/ state' = [state EXCEPT ![e] = Media!Unregistered(state[e])]
        \/ state' = [state EXCEPT ![e] =
                       [Media!Unregistered(state[e]) EXCEPT !.entry.registered = TRUE]]
    BY <1>4 DEF Media!registerAssetLoadLoadingStateEntity, Media!registerVideoEventsEntity,
                Media!registerAudioEventsEntity, Media!removeEntity, MediaInv
  <2> QED BY <1>2, <2>1, <2>2, <2>3
<1>5. ASSUME NEW e \in MediaEntities, NEW present \in BOOLEAN, Media!SetPlayer(e, present)
      PROVE  MediaInv'
  <2> DEFINE m == [state[e] EXCEPT !.player = present]
  <2>1. state' = [state EXCEPT ![e] = m] /\ entityState' = entityState
    BY <1>5 DEF Media!SetPlayer, MediaInv
  <2>2. /\ DOMAIN m = MediaFields /\ m.entry = state[e].entry /\ m.row = state[e].row
        /\ m.heard = state[e].heard /\ m.kind = state[e].kind
    BY <1>3 DEF MediaHeard, MediaFields
  <2> HIDE DEF m
  <2>3. MediaHeard(m, entityState[e])
    BY <1>3, <2>2 DEF MediaHeard, AssetHeard, StateHeard
  <2> QED BY <1>2, <2>1, <2>3
<1>6. ASSUME NEW e \in MediaEntities, NEW s \in MediaStates, Media!RendererReports(e, s)
      PROVE  MediaInv'
  <2> DEFINE row == Append(state[e].row, s)
             m == [state[e] EXCEPT !.row = row]
  <2>1. state' = [state EXCEPT ![e] = m] /\ entityState' = entityState
    BY <1>6 DEF Media!RendererReports, MediaInv
  <2>2. state[e].row \in Seq(MediaStates) /\ Len(state[e].row) \in Nat
    BY <1>3 DEF MediaHeard
  <2>3. /\ DOMAIN m = MediaFields /\ m.entry = state[e].entry /\ m.row = row
        /\ m.heard = state[e].heard /\ m.kind = state[e].kind
    BY <1>3 DEF MediaHeard, MediaFields
  <2> HIDE DEF m
  <2>4. /\ row \in Seq(MediaStates) /\ Len(row) = Len(state[e].row) + 1
        /\ \A i \in 1 .. Len(state[e].row) : row[i] = state[e].row[i]
    BY <2>2
  <2> HIDE DEF row
  <2>5. ASSUME NEW k \in 0 .. Len(state[e].row)
        PROVE  SubSeq(row, 1, k) = SubSeq(state[e].row, 1, k)
    BY <2>2, <2>4
  <2>6. AssetHeard(state[e]) => AssetHeard(m)
    BY <2>2, <2>3, <2>4, <2>5 DEF AssetHeard
  <2>7. MediaHeard(m, entityState[e])
    BY <1>3, <2>3, <2>4, <2>6 DEF MediaHeard, StateHeard
  <2> QED BY <1>2, <2>1, <2>7
<1>7. ASSUME NEW e \in MediaEntities, Media!RemoveEntity(e) PROVE MediaInv'
  <2> DEFINE m == [state[e] EXCEPT !.row = <<>>, !.player = FALSE]
  <2>1. state' = [state EXCEPT ![e] = m] /\ entityState' = [entityState EXCEPT ![e] = "removing"]
    BY <1>7 DEF Media!RemoveEntity, MediaInv
  <2>2. /\ DOMAIN m = MediaFields /\ m.entry = state[e].entry /\ m.row = <<>>
        /\ m.heard = state[e].heard /\ m.kind = state[e].kind
    BY <1>3 DEF MediaHeard, MediaFields
  <2>3. <<>> \in Seq(MediaStates)
    OBVIOUS
  <2> HIDE DEF m
  <2>4. MediaHeard(m, "removing")
    BY <1>3, <2>2, <2>3 DEF MediaHeard, StateHeard
  <2>5. entityState'[e] = "removing"
    BY <2>1 DEF MediaInv
  <2> QED BY <1>2, <2>1, <2>4, <2>5
<1>8. CASE UNCHANGED <<state, entityState>>
  BY <1>8 DEF MediaInv
<1> QED BY <1>1, <1>4, <1>5, <1>6, <1>7, <1>8 DEF Media!Next

LEMMA MediaStarts ==
  ASSUME Media!Init
  PROVE  MediaInv
<1>1. PICK kind \in [MediaEntities -> MediaKinds] :
        state = [e \in MediaEntities |->
                   [kind |-> kind[e], entry |-> Media!NoEntry, row |-> <<>>, heard |-> <<>>,
                    player |-> FALSE]]
  BY DEF Media!Init, Media!MediaInit
<1>2. entityState = [e \in MediaEntities |-> "used"]
  BY DEF Media!Init
<1>3. ASSUME NEW e \in MediaEntities PROVE MediaHeard(state[e], entityState[e])
  <2>1. /\ DOMAIN state[e] = MediaFields /\ state[e].entry = Media!NoEntry
        /\ state[e].row = <<>> /\ state[e].heard = <<>>
    BY <1>1 DEF MediaFields
  <2>2. DOMAIN Media!NoEntry = EntryFields /\ Media!NoEntry.lastLength = 0
        /\ <<>> \in Seq(MediaStates)
    BY DEF Media!NoEntry, EntryFields
  <2> QED BY <2>1, <2>2, NothingHeard
<1> QED BY <1>1, <1>2, <1>3 DEF MediaInv

LEMMA MediaHeardOnce ==
  ASSUME MediaInv
  PROVE  Media!HeardAtMostOnce
BY DEF MediaInv, MediaHeard, AssetHeard, StateHeard, Media!HeardAtMostOnce

-----------------------------------------------------------------------------
(* Observables.                                                            *)
ObserverFields ==
  {"observers", "mask", "unregisterOnNextCall", "willBeUnregistered", "microtasks", "created",
   "cursor", "eventMask", "skipNextObservers", "called", "calledEver", "atStart", "whole", "chain"}

(* The types; who is not created yet was not called.                       *)
ObserverShape(b) ==
  /\ DOMAIN b = ObserverFields
  /\ b.observers \in Seq(Observers) /\ IsInjective(b.observers)
  /\ b.created \in Nat /\ b.cursor \in 0 .. Len(b.observers)
  /\ DOMAIN b.mask = Observers
  /\ b.unregisterOnNextCall \in [Observers -> BOOLEAN]
  /\ b.willBeUnregistered \in [Observers -> BOOLEAN]
  /\ b.called \in [Observers -> {0, 1}] /\ b.calledEver \in [Observers -> {0, 1}]
  /\ b.skipNextObservers \in BOOLEAN /\ b.whole \in BOOLEAN
  /\ \A i \in DOMAIN b.chain : b.chain[i] \in Observers

CreatedInOrder(b) ==
  /\ \A o \in ToSet(b.observers) : o <= b.created
  /\ \A o \in b.atStart : o \in Observers /\ o <= b.created
  /\ \A i \in DOMAIN b.chain : b.chain[i] <= b.created
  /\ \A o \in Observers : o > b.created => b.called[o] = 0 /\ b.calledEver[o] = 0

(* An observer of addOnce that is not on its way out was never called and  *)
(* waits for no promise; one that waits for a promise was not called yet.  *)
OnlyOnce(b) ==
  /\ \A o \in OnceObservers : ~b.willBeUnregistered[o] =>
       /\ b.calledEver[o] = 0
       /\ o \in ToSet(b.observers) => b.unregisterOnNextCall[o]
       /\ \A i \in DOMAIN b.chain : b.chain[i] # o
  /\ \A i \in DOMAIN b.chain : b.chain[i] \in OnceObservers => b.calledEver[b.chain[i]] = 0
  /\ \A i, j \in DOMAIN b.chain : b.chain[i] = b.chain[j] => i = j

(* A walk that visited the places up to k has called nobody behind them.   *)
Reached(b, o) ==
  o \in b.atStart /\ b.mask[o] \cap b.eventMask # {} => b.called[o] = 1

WalkedTo(b, k) ==
  /\ \A i \in 1 .. Len(b.observers) :
       IF i <= k THEN Reached(b, b.observers[i])
       ELSE /\ b.called[b.observers[i]] = 0
            /\ b.observers[i] \in b.atStart => ~b.willBeUnregistered[b.observers[i]]
  /\ b.atStart \subseteq ToSet(b.observers)

WalkIsTrue(b) ==
  /\ b.cursor # 0 => WalkedTo(b, b.cursor)
  /\ b.cursor = 0 /\ b.whole => \A o \in b.atStart : Reached(b, o)

ObservedRight(b) ==
  ObserverShape(b) /\ CreatedInOrder(b) /\ OnlyOnce(b) /\ WalkIsTrue(b)

ObserverInv == ObservedRight(state)

LEMMA ObserverOperators ==
  \A s : Observables!Range(s) = ToSet(s)
BY DEF Observables!Range, ToSet

(* OnlyOnce speaks of a few fields only.                                   *)
LEMMA OnlyOnceOfFields ==
  ASSUME NEW b, NEW d, OnlyOnce(b), d.unregisterOnNextCall = b.unregisterOnNextCall,
         d.willBeUnregistered = b.willBeUnregistered, d.calledEver = b.calledEver,
         d.chain = b.chain, ToSet(d.observers) \subseteq ToSet(b.observers)
  PROVE  OnlyOnce(d)
<1>1. /\ \A i \in DOMAIN b.chain : b.chain[i] \in OnceObservers => b.calledEver[b.chain[i]] = 0
      /\ \A i, j \in DOMAIN b.chain : b.chain[i] = b.chain[j] => i = j
  BY Zenon DEF OnlyOnce
<1>2. /\ \A i \in DOMAIN d.chain : d.chain[i] \in OnceObservers => d.calledEver[d.chain[i]] = 0
      /\ \A i, j \in DOMAIN d.chain : d.chain[i] = d.chain[j] => i = j
  BY <1>1
<1>3. ASSUME NEW o \in OnceObservers, ~d.willBeUnregistered[o]
      PROVE  /\ d.calledEver[o] = 0
             /\ o \in ToSet(d.observers) => d.unregisterOnNextCall[o]
             /\ \A i \in DOMAIN d.chain : d.chain[i] # o
  <2>1. /\ b.calledEver[o] = 0
        /\ o \in ToSet(b.observers) => b.unregisterOnNextCall[o]
        /\ \A i \in DOMAIN b.chain : b.chain[i] # o
    BY <1>3, Zenon DEF OnlyOnce
  <2>2. o \in ToSet(d.observers) => o \in ToSet(b.observers)
    OBVIOUS
  <2> QED BY <2>1, <2>2, Zenon
<1> QED BY <1>2, <1>3, Zenon DEF OnlyOnce

(* What _deferUnregister changes.                                          *)
LEMMA DeferredFields ==
  ASSUME NEW b, ObserverShape(b), NEW leaving
  PROVE  LET d == Observables!_deferUnregister(b, leaving) IN
         /\ ObserverShape(d)
         /\ \A o \in Observers :
              /\ d.unregisterOnNextCall[o] <=> (b.unregisterOnNextCall[o] /\ o \notin leaving)
              /\ d.willBeUnregistered[o] <=> (b.willBeUnregistered[o] \/ o \in leaving)
         /\ d.atStart = b.atStart \ leaving
         /\ \A f \in ObserverFields \ {"unregisterOnNextCall", "willBeUnregistered", "microtasks", "atStart"} :
              d[f] = b[f]
<1> DEFINE d == Observables!_deferUnregister(b, leaving)
           u == [o \in Observers |-> b.unregisterOnNextCall[o] /\ o \notin leaving]
           w == [o \in Observers |-> b.willBeUnregistered[o] \/ o \in leaving]
<1>1. /\ DOMAIN d = ObserverFields /\ d.atStart = b.atStart \ leaving
      /\ d.unregisterOnNextCall = u /\ d.willBeUnregistered = w
      /\ \A f \in ObserverFields \ {"unregisterOnNextCall", "willBeUnregistered", "microtasks", "atStart"} :
           d[f] = b[f]
  BY DEF Observables!_deferUnregister, ObserverShape, ObserverFields
<1>2. u \in [Observers -> BOOLEAN] /\ w \in [Observers -> BOOLEAN]
  BY Zenon
<1>3. \A o \in Observers :
        /\ u[o] <=> (b.unregisterOnNextCall[o] /\ o \notin leaving)
        /\ w[o] <=> (b.willBeUnregistered[o] \/ o \in leaving)
  BY Zenon
<1> HIDE DEF d, u, w
<1>4. ObserverShape(d)
  BY <1>1, <1>2 DEF ObserverShape, ObserverFields
<1>5. \A o \in Observers :
        /\ d.unregisterOnNextCall[o] <=> (b.unregisterOnNextCall[o] /\ o \notin leaving)
        /\ d.willBeUnregistered[o] <=> (b.willBeUnregistered[o] \/ o \in leaving)
  BY <1>1, <1>3, Zenon
<1> QED BY <1>1, <1>4, <1>5 DEF d

LEMMA DeferKeeps ==
  ASSUME NEW b, ObserverShape(b), CreatedInOrder(b), WalkIsTrue(b), NEW leaving
  PROVE  LET d == Observables!_deferUnregister(b, leaving) IN
         ObserverShape(d) /\ CreatedInOrder(d) /\ WalkIsTrue(d) /\ (OnlyOnce(b) => OnlyOnce(d))
<1> DEFINE d == Observables!_deferUnregister(b, leaving)
<1>1. /\ ObserverShape(d)
      /\ \A o \in Observers :
           /\ d.unregisterOnNextCall[o] <=> (b.unregisterOnNextCall[o] /\ o \notin leaving)
           /\ d.willBeUnregistered[o] <=> (b.willBeUnregistered[o] \/ o \in leaving)
      /\ d.atStart = b.atStart \ leaving
      /\ \A f \in ObserverFields \ {"unregisterOnNextCall", "willBeUnregistered", "microtasks", "atStart"} :
           d[f] = b[f]
  BY DeferredFields
<1> HIDE DEF d
<1>2. /\ d.observers = b.observers /\ d.created = b.created /\ d.cursor = b.cursor
      /\ d.called = b.called /\ d.calledEver = b.calledEver /\ d.mask = b.mask
      /\ d.eventMask = b.eventMask /\ d.chain = b.chain /\ d.whole = b.whole
  BY <1>1 DEF ObserverFields
<1>3. CreatedInOrder(d)
  BY <1>1, <1>2 DEF CreatedInOrder
<1>4. \A o : Reached(b, o) => Reached(d, o)
  BY <1>1, <1>2 DEF Reached
<1>5. WalkIsTrue(d)
  <2>1. ASSUME NEW k, WalkedTo(b, k) PROVE WalkedTo(d, k)
    <3>1. \A i \in 1 .. Len(b.observers) : b.observers[i] \in Observers
      BY DEF ObserverShape
    <3> QED BY <1>1, <1>2, <1>4, <2>1, <3>1 DEF WalkedTo
  <2> QED BY <1>1, <1>2, <1>4, <2>1 DEF WalkIsTrue
<1>6. ASSUME OnlyOnce(b) PROVE OnlyOnce(d)
  <2>1. OnceObservers \subseteq Observers
    BY CoreAssumption DEF CoreAssumption, Observables!ObservableAssumption
  <2>2. ASSUME NEW o \in OnceObservers, ~d.willBeUnregistered[o]
        PROVE  /\ d.calledEver[o] = 0
               /\ o \in ToSet(d.observers) => d.unregisterOnNextCall[o]
               /\ \A i \in DOMAIN d.chain : d.chain[i] # o
    <3>1. ~b.willBeUnregistered[o] /\ o \notin leaving
      BY <1>1, <2>1, <2>2, Zenon
    <3>2. /\ b.calledEver[o] = 0
          /\ o \in ToSet(b.observers) => b.unregisterOnNextCall[o]
          /\ \A i \in DOMAIN b.chain : b.chain[i] # o
      BY <1>6, <3>1, Zenon DEF OnlyOnce
    <3>3. b.unregisterOnNextCall[o] => d.unregisterOnNextCall[o]
      BY <1>1, <2>1, <3>1, Zenon
    <3> QED BY <1>2, <3>2, <3>3, Zenon
  <2>3. /\ \A i \in DOMAIN d.chain : d.chain[i] \in OnceObservers => d.calledEver[d.chain[i]] = 0
        /\ \A i, j \in DOMAIN d.chain : d.chain[i] = d.chain[j] => i = j
    BY <1>2, <1>6, Zenon DEF OnlyOnce
  <2> QED BY <2>2, <2>3, Zenon DEF OnlyOnce
<1> QED BY <1>1, <1>3, <1>5, <1>6 DEF d

(* A visit calls the observer of its place, if it is to be called.         *)
LEMMA VisitKeeps ==
  ASSUME NEW b, ObserverShape(b), CreatedInOrder(b), OnlyOnce(b),
         NEW i \in 1 .. Len(b.observers), WalkedTo(b, i - 1)
  PROVE  LET v == Observables!Visit(b, i) IN
         /\ ObserverShape(v) /\ CreatedInOrder(v) /\ OnlyOnce(v) /\ WalkIsTrue(v)
<1> DEFINE o  == b.observers[i]
           at == [b EXCEPT !.cursor = i]
           called == [at EXCEPT !.called[o] = @ + 1,
                                !.calledEver[o] = IF o \in OnceObservers THEN @ + 1 ELSE 0]
           left == Observables!_deferUnregister(called, {o})
           v == Observables!Visit(b, i)
<1>0. OnceObservers \subseteq Observers /\ Observers \subseteq Nat
  BY CoreAssumption DEF CoreAssumption, Observables!ObservableAssumption
<1>1. /\ o \in Observers /\ o \in ToSet(b.observers) /\ o <= b.created
      /\ i # 0 /\ i \in 0 .. Len(b.observers)
      /\ \A j \in 1 .. Len(b.observers) : b.observers[j] = o => j = i
      /\ \A j \in 1 .. Len(b.observers) : b.observers[j] \in Observers
  <2>1. Len(b.observers) \in Nat /\ DOMAIN b.observers = 1 .. Len(b.observers)
    BY DEF ObserverShape
  <2>2. o \in Observers /\ o \in ToSet(b.observers)
    BY <2>1 DEF ObserverShape, ToSet
  <2> QED BY <2>1, <2>2 DEF ObserverShape, IsInjective, CreatedInOrder
<1>2. v = IF b.willBeUnregistered[o] \/ b.mask[o] \cap b.eventMask = {} THEN at
          ELSE IF b.unregisterOnNextCall[o] THEN [left EXCEPT !.atStart = @ \cup {o}]
          ELSE called
  BY Zenon DEF Observables!Visit
<1>3. /\ DOMAIN at = ObserverFields /\ at.cursor = i
      /\ \A f \in ObserverFields \ {"cursor"} : at[f] = b[f]
  BY DEF ObserverShape, ObserverFields
<1>4. /\ DOMAIN called = ObserverFields
      /\ called.called = [b.called EXCEPT ![o] = @ + 1]
      /\ called.calledEver = [b.calledEver EXCEPT ![o] = IF o \in OnceObservers THEN @ + 1 ELSE 0]
      /\ \A f \in ObserverFields \ {"called", "calledEver"} : called[f] = at[f]
  BY <1>3 DEF ObserverFields
<1> HIDE DEF at, called, v
<1>5. ASSUME v = at, b.willBeUnregistered[o] \/ b.mask[o] \cap b.eventMask = {}
      PROVE  ObserverShape(v) /\ CreatedInOrder(v) /\ OnlyOnce(v) /\ WalkIsTrue(v)
  <2>1. /\ v.observers = b.observers /\ v.called = b.called /\ v.calledEver = b.calledEver
        /\ v.atStart = b.atStart /\ v.mask = b.mask /\ v.eventMask = b.eventMask
        /\ v.willBeUnregistered = b.willBeUnregistered /\ v.chain = b.chain /\ v.cursor = i
        /\ v.unregisterOnNextCall = b.unregisterOnNextCall /\ v.created = b.created
    BY <1>3, <1>5 DEF ObserverFields
  <2>2. ObserverShape(v)
    BY <1>1, <1>3, <1>5, <2>1 DEF ObserverShape, ObserverFields
  <2>3. CreatedInOrder(v)
    BY <2>1 DEF CreatedInOrder
  <2>4. OnlyOnce(v)
    BY <2>1 DEF OnlyOnce
  <2>5. o \in b.atStart => b.mask[o] \cap b.eventMask = {}
    BY <1>1, <1>5 DEF WalkedTo
  <2>6. WalkedTo(v, i)
    <3>1. Reached(v, o)
      BY <2>1, <2>5 DEF Reached
    <3>2. ASSUME NEW j \in 1 .. Len(b.observers), j <= i PROVE Reached(v, b.observers[j])
      <4>1. CASE j = i
        BY <3>1, <4>1
      <4>2. CASE j # i
        <5>1. j <= i - 1
          BY <3>2, <4>2
        <5> QED BY <2>1, <5>1 DEF WalkedTo, Reached
      <4> QED BY <4>1, <4>2
    <3>3. ASSUME NEW j \in 1 .. Len(b.observers), ~(j <= i)
          PROVE  /\ b.called[b.observers[j]] = 0
                 /\ b.observers[j] \in b.atStart => ~b.willBeUnregistered[b.observers[j]]
      <4>1. ~(j <= i - 1)
        BY <3>3
      <4> QED BY <4>1 DEF WalkedTo
    <3> QED BY <2>1, <3>2, <3>3 DEF WalkedTo
  <2>7. WalkIsTrue(v)
    BY <1>1, <2>1, <2>6 DEF WalkIsTrue
  <2> QED BY <2>2, <2>3, <2>4, <2>7
<1>6. ASSUME ~(b.willBeUnregistered[o] \/ b.mask[o] \cap b.eventMask = {})
      PROVE  ObserverShape(v) /\ CreatedInOrder(v) /\ OnlyOnce(v) /\ WalkIsTrue(v)
  <2>1. /\ called.observers = b.observers /\ called.cursor = i /\ called.created = b.created
        /\ called.atStart = b.atStart /\ called.mask = b.mask /\ called.eventMask = b.eventMask
        /\ called.willBeUnregistered = b.willBeUnregistered /\ called.chain = b.chain
        /\ called.unregisterOnNextCall = b.unregisterOnNextCall
    BY <1>3, <1>4 DEF ObserverFields
  <2>2. ~b.willBeUnregistered[o]
    BY <1>6, Zenon
  <2>3. b.called[o] = 0
    BY <1>1 DEF WalkedTo
  <2>4. o \in OnceObservers => b.calledEver[o] = 0 /\ b.unregisterOnNextCall[o]
                               /\ \A j \in DOMAIN b.chain : b.chain[j] # o
    BY <1>1, <2>2, Zenon DEF OnlyOnce
  <2>5. /\ called.called[o] = 1 /\ called.called \in [Observers -> {0, 1}]
        /\ \A p \in Observers \ {o} : called.called[p] = b.called[p]
    <3>1. b.called \in [Observers -> {0, 1}]
      BY DEF ObserverShape
    <3> QED BY <1>1, <1>4, <2>3, <3>1
  <2>6. /\ called.calledEver \in [Observers -> {0, 1}]
        /\ \A p \in Observers \ {o} : called.calledEver[p] = b.calledEver[p]
    <3>1. b.calledEver \in [Observers -> {0, 1}]
      BY DEF ObserverShape
    <3>2. (IF o \in OnceObservers THEN b.calledEver[o] + 1 ELSE 0) \in {0, 1}
      BY <2>4
    <3> QED BY <1>1, <1>4, <3>1, <3>2
  <2>7. ObserverShape(called)
    <3>1. /\ called.skipNextObservers = b.skipNextObservers /\ called.whole = b.whole
          /\ DOMAIN called = ObserverFields
      BY <1>3, <1>4 DEF ObserverFields
    <3> QED BY <1>1, <2>1, <2>5, <2>6, <3>1 DEF ObserverShape
  <2>8. CreatedInOrder(called)
    <3>1. ASSUME NEW p \in Observers, p > b.created PROVE p # o
      BY <1>0, <1>1, <3>1 DEF ObserverShape
    <3> QED BY <2>1, <2>5, <2>6, <3>1 DEF CreatedInOrder
  <2>9. Reached(called, o)
    BY <2>5 DEF Reached
  <2>10. ASSUME NEW j \in 1 .. Len(b.observers), j <= i PROVE Reached(called, b.observers[j])
    <3>1. CASE j = i
      BY <2>9, <3>1
    <3>2. CASE j # i
      <4>1. j <= i - 1 /\ b.observers[j] \in Observers \ {o}
        BY <1>1, <2>10, <3>2
      <4> QED BY <2>1, <2>5, <4>1 DEF WalkedTo, Reached
    <3> QED BY <3>1, <3>2
  <2>11. ASSUME NEW j \in 1 .. Len(b.observers), ~(j <= i)
         PROVE  /\ called.called[b.observers[j]] = 0 /\ b.observers[j] # o
                /\ b.observers[j] \in b.atStart => ~b.willBeUnregistered[b.observers[j]]
    <3>1. ~(j <= i - 1) /\ b.observers[j] \in Observers \ {o}
      BY <1>1, <2>11
    <3> QED BY <2>5, <3>1 DEF WalkedTo
  <2>12. b.atStart \subseteq ToSet(b.observers)
    BY DEF WalkedTo
  <2>13. WalkIsTrue(called)
    BY <1>1, <2>1, <2>10, <2>11, <2>12 DEF WalkIsTrue, WalkedTo
  <2>14. ASSUME b.unregisterOnNextCall[o]
         PROVE  ObserverShape(v) /\ CreatedInOrder(v) /\ OnlyOnce(v) /\ WalkIsTrue(v)
    <3>1. ObserverShape(left) /\ CreatedInOrder(left) /\ WalkIsTrue(left)
      BY <2>7, <2>8, <2>13, DeferKeeps
    <3>2. /\ \A p \in Observers :
               /\ left.unregisterOnNextCall[p] <=> (called.unregisterOnNextCall[p] /\ p \notin {o})
               /\ left.willBeUnregistered[p] <=> (called.willBeUnregistered[p] \/ p \in {o})
          /\ left.atStart = called.atStart \ {o}
          /\ \A f \in ObserverFields \ {"unregisterOnNextCall", "willBeUnregistered", "microtasks", "atStart"} :
               left[f] = called[f]
      BY <2>7, DeferredFields
    <3>3. v = [left EXCEPT !.atStart = @ \cup {o}]
      BY <1>2, <1>6, <2>14, Zenon
    <3> HIDE DEF left
    <3>4. /\ DOMAIN v = ObserverFields /\ v.atStart = left.atStart \cup {o}
          /\ \A f \in ObserverFields \ {"atStart"} : v[f] = left[f]
      BY <3>1, <3>3 DEF ObserverShape, ObserverFields
    <3>5. /\ v.observers = b.observers /\ v.cursor = i /\ v.created = b.created
          /\ v.atStart = (b.atStart \ {o}) \cup {o} /\ v.mask = b.mask /\ v.eventMask = b.eventMask
          /\ v.chain = b.chain /\ v.called = called.called /\ v.calledEver = called.calledEver
          /\ v.unregisterOnNextCall = left.unregisterOnNextCall
          /\ v.willBeUnregistered = left.willBeUnregistered
      BY <2>1, <3>2, <3>4 DEF ObserverFields
    <3>6. ObserverShape(v)
      BY <3>1, <3>4 DEF ObserverShape, ObserverFields
    <3>7. CreatedInOrder(v)
      BY <1>1, <2>1, <2>8, <3>5 DEF CreatedInOrder
    <3>8. OnlyOnce(v)
      <4>1. ASSUME NEW p \in OnceObservers, ~v.willBeUnregistered[p]
            PROVE  /\ v.calledEver[p] = 0
                   /\ p \in ToSet(v.observers) => v.unregisterOnNextCall[p]
                   /\ \A j \in DOMAIN v.chain : v.chain[j] # p
        <5>1. ~left.willBeUnregistered[p] /\ p \in Observers
          BY <1>0, <3>5, <4>1, Zenon
        <5>2. ~b.willBeUnregistered[p] /\ p # o
          BY <2>1, <3>2, <5>1, Zenon
        <5>3. /\ b.calledEver[p] = 0
              /\ p \in ToSet(b.observers) => b.unregisterOnNextCall[p]
              /\ \A j \in DOMAIN b.chain : b.chain[j] # p
          BY <5>2, Zenon DEF OnlyOnce
        <5>4. b.unregisterOnNextCall[p] => left.unregisterOnNextCall[p]
          BY <2>1, <3>2, <5>1, <5>2, Zenon
        <5>5. v.calledEver[p] = 0
          BY <2>6, <3>5, <5>1, <5>2, <5>3
        <5> QED BY <3>5, <5>3, <5>4, <5>5, Zenon
      <4>2. \A j \in DOMAIN v.chain : v.chain[j] \in OnceObservers => v.calledEver[v.chain[j]] = 0
        <5>1. ASSUME NEW j \in DOMAIN b.chain, b.chain[j] \in OnceObservers
              PROVE  called.calledEver[b.chain[j]] = 0
          <6>1. b.chain[j] # o /\ b.chain[j] \in Observers /\ b.calledEver[b.chain[j]] = 0
            BY <1>0, <2>4, <5>1, Zenon DEF OnlyOnce
          <6> QED BY <2>6, <6>1
        <5> QED BY <3>5, <5>1
      <4>3. \A j, k \in DOMAIN v.chain : v.chain[j] = v.chain[k] => j = k
        BY <3>5, Zenon DEF OnlyOnce
      <4> QED BY <4>1, <4>2, <4>3, Zenon DEF OnlyOnce
    <3>9. WalkedTo(v, i)
      <4>1. ASSUME NEW j \in 1 .. Len(b.observers), j <= i PROVE Reached(v, b.observers[j])
        BY <2>5, <2>10, <2>1, <3>5, <4>1 DEF Reached
      <4>2. ASSUME NEW j \in 1 .. Len(b.observers), ~(j <= i)
            PROVE  /\ v.called[b.observers[j]] = 0
                   /\ b.observers[j] \in v.atStart => ~v.willBeUnregistered[b.observers[j]]
        <5>1. /\ called.called[b.observers[j]] = 0 /\ b.observers[j] # o
              /\ b.observers[j] \in b.atStart => ~b.willBeUnregistered[b.observers[j]]
          BY <2>11, <4>2
        <5>2. b.observers[j] \in v.atStart => b.observers[j] \in b.atStart
          BY <3>5, <5>1
        <5>3. b.observers[j] \in Observers
          BY <1>1
        <5>4. ~b.willBeUnregistered[b.observers[j]] => ~v.willBeUnregistered[b.observers[j]]
          BY <2>1, <3>2, <3>5, <5>1, <5>3, Zenon
        <5> QED BY <3>5, <5>1, <5>2, <5>4, Zenon
      <4>3. v.atStart \subseteq ToSet(v.observers)
        BY <1>1, <2>12, <3>5
      <4> QED BY <3>5, <4>1, <4>2, <4>3 DEF WalkedTo
    <3>10. WalkIsTrue(v)
      BY <1>1, <3>5, <3>9 DEF WalkIsTrue
    <3> QED BY <3>6, <3>7, <3>8, <3>10
  <2>15. ASSUME ~b.unregisterOnNextCall[o]
         PROVE  ObserverShape(v) /\ CreatedInOrder(v) /\ OnlyOnce(v) /\ WalkIsTrue(v)
    <3>1. v = called
      BY <1>2, <1>6, <2>15, Zenon
    <3>2. o \notin OnceObservers
      BY <2>4, <2>15, Zenon
    <3>3. \A p \in OnceObservers : called.calledEver[p] = b.calledEver[p]
      BY <1>0, <2>6, <3>2
    <3>4. OnlyOnce(called)
      <4>1. ASSUME NEW p \in OnceObservers, ~called.willBeUnregistered[p]
            PROVE  /\ called.calledEver[p] = 0
                   /\ p \in ToSet(called.observers) => called.unregisterOnNextCall[p]
                   /\ \A j \in DOMAIN called.chain : called.chain[j] # p
        <5>1. /\ b.calledEver[p] = 0
              /\ p \in ToSet(b.observers) => b.unregisterOnNextCall[p]
              /\ \A j \in DOMAIN b.chain : b.chain[j] # p
          BY <2>1, <4>1, Zenon DEF OnlyOnce
        <5> QED BY <2>1, <3>3, <5>1, Zenon
      <4>2. ASSUME NEW j \in DOMAIN called.chain, called.chain[j] \in OnceObservers
            PROVE  called.calledEver[called.chain[j]] = 0
        <5>1. b.calledEver[b.chain[j]] = 0 /\ b.chain[j] \in OnceObservers
          BY <2>1, <4>2, Zenon DEF OnlyOnce
        <5> QED BY <2>1, <3>3, <5>1
      <4>3. \A j, k \in DOMAIN called.chain : called.chain[j] = called.chain[k] => j = k
        BY <2>1, Zenon DEF OnlyOnce
      <4> QED BY <4>1, <4>2, <4>3, Zenon DEF OnlyOnce
    <3> QED BY <2>7, <2>8, <2>13, <3>1, <3>4
  <2> QED BY <2>14, <2>15, Zenon
<1> HIDE DEF o, left
<1> QED BY <1>2, <1>5, <1>6, Zenon DEF v

-----------------------------------------------------------------------------
LEMMA AddKeepsObservers ==
  ASSUME NEW b, ObservedRight(b), NEW insertFirst \in BOOLEAN, NEW mask,
         NEW o, o = b.created + 1, o \in Observers, insertFirst => b.cursor = 0,
         NEW l, l = IF insertFirst THEN <<o>> \o b.observers ELSE Append(b.observers, o),
         NEW d, d = [b EXCEPT !.created = o, !.mask[o] = mask,
                              !.unregisterOnNextCall[o] = o \in OnceObservers, !.observers = l]
  PROVE  ObservedRight(d)
<1>0. OnceObservers \subseteq Observers /\ Observers \subseteq Nat
  BY CoreAssumption DEF CoreAssumption, Observables!ObservableAssumption
<1>2. /\ DOMAIN d = ObserverFields /\ d.created = o /\ d.observers = l
      /\ d.mask = [b.mask EXCEPT ![o] = mask]
      /\ d.unregisterOnNextCall =
           [b.unregisterOnNextCall EXCEPT ![o] = o \in OnceObservers]
      /\ \A f \in ObserverFields \ {"created", "mask", "unregisterOnNextCall", "observers"} :
           d[f] = b[f]
  BY DEF ObservedRight, ObserverShape, ObserverFields
<1>3. /\ b.observers \in Seq(Observers) /\ IsInjective(b.observers)
      /\ b.created \in Nat /\ ToSet(b.observers) \subseteq Observers
  BY DEF ObservedRight, ObserverShape, ToSet
<1>4. o \notin ToSet(b.observers)
  BY <1>0, <1>3 DEF ObservedRight, CreatedInOrder
<1>5. l \in Seq(Observers) /\ IsInjective(l) /\ ToSet(l) = ToSet(b.observers) \cup {o}
  BY <1>3, <1>4, AppendKeepsInjective, FrontKeepsInjective
<1>6. /\ Len(l) = Len(b.observers) + 1
      /\ ~insertFirst => /\ l[Len(l)] = o
                         /\ \A i \in 1 .. Len(b.observers) : l[i] = b.observers[i]
  <2>1. CASE insertFirst
    <3>1. <<o>> \in Seq(Observers) /\ Len(<<o>>) = 1
      OBVIOUS
    <3>2. Len(<<o>> \o b.observers) = Len(<<o>>) + Len(b.observers) /\ Len(b.observers) \in Nat
      BY <1>3, <3>1, ConcatProperties
    <3> QED BY <2>1, <3>1, <3>2
  <2>2. CASE ~insertFirst
    BY <1>3, <2>2
  <2> QED BY <2>1, <2>2
<1>7. /\ d.cursor = b.cursor /\ d.called = b.called
      /\ d.calledEver = b.calledEver /\ d.atStart = b.atStart
      /\ d.eventMask = b.eventMask /\ d.chain = b.chain
      /\ d.willBeUnregistered = b.willBeUnregistered /\ d.whole = b.whole
      /\ d.skipNextObservers = b.skipNextObservers
  BY <1>2 DEF ObserverFields
<1>8. o > b.created /\ o \in Nat
  BY <1>3
<1>9. /\ \A p \in b.atStart : p # o
      /\ \A i \in DOMAIN b.chain : b.chain[i] # o
      /\ b.called[o] = 0 /\ b.calledEver[o] = 0
  BY <1>0, <1>3, <1>8 DEF ObservedRight, CreatedInOrder
<1>10. d.unregisterOnNextCall \in [Observers -> BOOLEAN]
  BY <1>2 DEF ObservedRight, ObserverShape
<1>11. ObserverShape(d)
  BY <1>2, <1>3, <1>5, <1>6, <1>7, <1>8, <1>10 DEF ObservedRight, ObserverShape
<1>12. CreatedInOrder(d)
  <2>1. /\ \A p \in ToSet(b.observers) : p <= b.created
        /\ \A p \in b.atStart : p \in Observers /\ p <= b.created
        /\ \A i \in DOMAIN b.chain : b.chain[i] \in Observers /\ b.chain[i] <= b.created
        /\ \A p \in Observers : p > b.created => b.called[p] = 0 /\ b.calledEver[p] = 0
    BY DEF ObservedRight, CreatedInOrder, ObserverShape
  <2>2. \A p \in Observers : (p <= b.created => p <= o) /\ (p > o => p > b.created)
    BY <1>0, <1>3
  <2>3. \A p \in ToSet(l) : p <= o
    BY <1>0, <1>3, <1>5, <1>8, <2>1, <2>2
  <2>4. \A i \in DOMAIN b.chain : b.chain[i] <= o
    BY <2>1, <2>2
  <2> QED BY <1>2, <1>7, <2>1, <2>2, <2>3, <2>4 DEF CreatedInOrder
<1>13. OnlyOnce(d)
  <2>1. ASSUME NEW p \in OnceObservers, ~d.willBeUnregistered[p]
        PROVE  /\ d.calledEver[p] = 0
               /\ p \in ToSet(d.observers) => d.unregisterOnNextCall[p]
               /\ \A j \in DOMAIN d.chain : d.chain[j] # p
    <3>1. /\ b.calledEver[p] = 0
          /\ p \in ToSet(b.observers) => b.unregisterOnNextCall[p]
          /\ \A j \in DOMAIN b.chain : b.chain[j] # p
      BY <1>7, <2>1, Zenon DEF OnlyOnce, ObservedRight
    <3>2. CASE p = o
      <4>1. DOMAIN b.unregisterOnNextCall = Observers
        BY DEF ObservedRight, ObserverShape
      <4>2. d.unregisterOnNextCall[o]
        BY <1>2, <2>1, <3>2, <4>1, Zenon
      <4> QED BY <1>7, <3>1, <3>2, <4>2, Zenon
    <3>3. CASE p # o
      <4>1. p \in ToSet(d.observers) => p \in ToSet(b.observers)
        BY <1>2, <1>5, <3>3
      <4>2. d.unregisterOnNextCall[p] = b.unregisterOnNextCall[p]
        BY <1>0, <1>2, <3>3 DEF ObservedRight, ObserverShape
      <4> QED BY <1>7, <3>1, <4>1, <4>2, Zenon
    <3> QED BY <3>2, <3>3
  <2>2. /\ \A j \in DOMAIN d.chain :
              d.chain[j] \in OnceObservers => d.calledEver[d.chain[j]] = 0
        /\ \A j, k \in DOMAIN d.chain : d.chain[j] = d.chain[k] => j = k
    <3>1. /\ \A j \in DOMAIN b.chain :
                b.chain[j] \in OnceObservers => b.calledEver[b.chain[j]] = 0
          /\ \A j, k \in DOMAIN b.chain : b.chain[j] = b.chain[k] => j = k
      BY Zenon DEF OnlyOnce, ObservedRight
    <3> QED BY <1>7, <3>1
  <2> QED BY <2>1, <2>2, Zenon DEF OnlyOnce
<1>14. \A p \in Observers \ {o} : d.mask[p] = b.mask[p]
  BY <1>2 DEF ObservedRight, ObserverShape
<1>15. \A p \in Observers \ {o} : Reached(b, p) => Reached(d, p)
  BY <1>7, <1>14 DEF Reached
<1>16. WalkIsTrue(d)
  <2>1. ASSUME b.cursor # 0 PROVE WalkedTo(d, b.cursor)
    <3>1. /\ WalkedTo(b, b.cursor) /\ ~insertFirst /\ Len(l) = Len(b.observers) + 1
          /\ l[Len(l)] = o /\ \A i \in 1 .. Len(b.observers) : l[i] = b.observers[i]
      BY <1>6, <2>1 DEF ObservedRight, WalkIsTrue
    <3>2. \A i \in 1 .. Len(b.observers) : b.observers[i] \in Observers \ {o}
      BY <1>3, <1>4 DEF ToSet
    <3>3. Len(b.observers) \in Nat /\ b.cursor <= Len(b.observers)
      BY <1>3 DEF ObservedRight, ObserverShape
    <3>4. ASSUME NEW i \in 1 .. Len(l), i <= b.cursor PROVE Reached(d, l[i])
      <4>1. i \in 1 .. Len(b.observers)
        <5>1. b.cursor \in Nat
          BY <3>3 DEF ObservedRight, ObserverShape
        <5> QED BY <3>1, <3>3, <3>4, <5>1
      <4>2. l[i] = b.observers[i] /\ l[i] \in Observers \ {o}
        BY <3>1, <3>2, <4>1
      <4>3. Reached(b, b.observers[i])
        BY <3>1, <3>4, <4>1 DEF WalkedTo
      <4> QED BY <1>15, <4>2, <4>3
    <3>5. ASSUME NEW i \in 1 .. Len(l), ~(i <= b.cursor)
          PROVE  d.called[l[i]] = 0 /\ (l[i] \in d.atStart => ~d.willBeUnregistered[l[i]])
      <4>1. CASE i = Len(l)
        BY <1>7, <1>9, <3>1, <4>1
      <4>2. CASE i # Len(l)
        <5>1. i \in 1 .. Len(b.observers)
          BY <3>1, <3>3, <4>2
        <5>2. /\ b.called[b.observers[i]] = 0
              /\ b.observers[i] \in b.atStart => ~b.willBeUnregistered[b.observers[i]]
          BY <3>1, <3>5, <5>1 DEF WalkedTo
        <5>3. l[i] = b.observers[i]
          BY <3>1, <5>1
        <5> QED BY <1>7, <5>2, <5>3, Zenon
      <4> QED BY <4>1, <4>2
    <3>6. d.atStart \subseteq ToSet(d.observers)
      BY <1>2, <1>5, <1>7, <3>1 DEF WalkedTo
    <3> QED BY <1>2, <3>4, <3>5, <3>6 DEF WalkedTo
  <2>2. ASSUME b.cursor = 0, b.whole, NEW p \in b.atStart PROVE Reached(d, p)
    <3>1. Reached(b, p) /\ p \in Observers \ {o}
      BY <1>9, <2>2 DEF ObservedRight, WalkIsTrue, CreatedInOrder
    <3> QED BY <1>15, <3>1
  <2> QED BY <1>7, <2>1, <2>2 DEF WalkIsTrue
<1> QED BY <1>11, <1>12, <1>13, <1>16 DEF ObservedRight

(* Taken out of the array, when no walk is going on.                       *)
LEMMA RemovalKeepsObservers ==
  ASSUME NEW b, ObservedRight(b), b.cursor = 0, NEW l, l \in Seq(Observers), IsInjective(l),
         ToSet(l) \subseteq ToSet(b.observers), NEW tasks,
         NEW d, d = [b EXCEPT !.observers = l, !.microtasks = tasks]
  PROVE  ObservedRight(d)
<1>1. /\ DOMAIN d = ObserverFields /\ d.observers = l
      /\ \A f \in ObserverFields \ {"observers", "microtasks"} : d[f] = b[f]
  BY DEF ObservedRight, ObserverShape, ObserverFields
<1>2. /\ d.mask = b.mask /\ d.unregisterOnNextCall = b.unregisterOnNextCall
      /\ d.willBeUnregistered = b.willBeUnregistered /\ d.created = b.created
      /\ d.cursor = 0 /\ d.eventMask = b.eventMask /\ d.called = b.called
      /\ d.calledEver = b.calledEver /\ d.atStart = b.atStart /\ d.whole = b.whole
      /\ d.chain = b.chain /\ d.skipNextObservers = b.skipNextObservers
  BY <1>1 DEF ObserverFields
<1>3. Len(l) \in Nat
  OBVIOUS
<1>4. ObserverShape(d)
  BY <1>1, <1>2, <1>3 DEF ObservedRight, ObserverShape
<1>5. CreatedInOrder(d)
  BY <1>1, <1>2 DEF ObservedRight, CreatedInOrder
<1>6. OnlyOnce(d)
  <2>1. OnlyOnce(b) /\ ToSet(d.observers) \subseteq ToSet(b.observers)
    BY <1>1 DEF ObservedRight
  <2>2. /\ d.unregisterOnNextCall = b.unregisterOnNextCall
        /\ d.willBeUnregistered = b.willBeUnregistered
        /\ d.calledEver = b.calledEver /\ d.chain = b.chain
    BY <1>2
  <2> QED BY <2>1, <2>2, OnlyOnceOfFields, Zenon
<1>7. WalkIsTrue(d)
  BY <1>2 DEF ObservedRight, WalkIsTrue, Reached
<1> QED BY <1>4, <1>5, <1>6, <1>7 DEF ObservedRight

(* A notification begins with nobody called.                               *)
LEMMA NotifyKeepsObservers ==
  ASSUME NEW b, ObservedRight(b), b.cursor = 0, b.observers # <<>>, NEW mask,
         NEW c, c = [b EXCEPT !.eventMask = mask, !.skipNextObservers = FALSE, !.whole = FALSE,
                              !.called = [o \in Observers |-> 0],
                              !.atStart = {o \in ToSet(b.observers) : ~b.willBeUnregistered[o]}]
  PROVE  ObservedRight(Observables!Visit(c, 1))
<1> DEFINE none == [o \in Observers |-> 0]
           start == {o \in ToSet(b.observers) : ~b.willBeUnregistered[o]}
<1>1. /\ DOMAIN c = ObserverFields /\ c.called = none /\ c.atStart = start
      /\ c.whole = FALSE /\ c.skipNextObservers = FALSE
      /\ \A f \in ObserverFields \ {"eventMask", "skipNextObservers", "whole", "called", "atStart"} :
           c[f] = b[f]
  BY DEF ObservedRight, ObserverShape, ObserverFields
<1>2. /\ c.mask = b.mask /\ c.unregisterOnNextCall = b.unregisterOnNextCall
      /\ c.willBeUnregistered = b.willBeUnregistered /\ c.created = b.created
      /\ c.cursor = 0 /\ c.calledEver = b.calledEver
      /\ c.chain = b.chain /\ c.observers = b.observers
  BY <1>1 DEF ObserverFields
<1>3. /\ none \in [Observers -> {0, 1}] /\ \A o \in Observers : none[o] = 0
      /\ start \subseteq ToSet(b.observers)
  OBVIOUS
<1>4. \A o \in start : ~b.willBeUnregistered[o]
  BY Zenon
<1> HIDE DEF none, start
<1>5. ObserverShape(c)
  BY <1>1, <1>2, <1>3 DEF ObservedRight, ObserverShape
<1>6. /\ Len(b.observers) \in Nat /\ 1 \in 1 .. Len(b.observers)
      /\ \A i \in 1 .. Len(b.observers) : b.observers[i] \in Observers
      /\ ToSet(b.observers) \subseteq Observers
  BY DEF ObservedRight, ObserverShape, ToSet
<1>7. CreatedInOrder(c)
  BY <1>1, <1>2, <1>3, <1>6 DEF ObservedRight, CreatedInOrder
<1>8. OnlyOnce(c)
  <2>1. OnlyOnce(b) /\ ToSet(c.observers) \subseteq ToSet(b.observers)
    BY <1>2 DEF ObservedRight
  <2>2. /\ c.unregisterOnNextCall = b.unregisterOnNextCall
        /\ c.willBeUnregistered = b.willBeUnregistered
        /\ c.calledEver = b.calledEver /\ c.chain = b.chain
    BY <1>2
  <2> QED BY <2>1, <2>2, OnlyOnceOfFields, Zenon
<1>9. WalkedTo(c, 0)
  <2>1. ASSUME NEW i \in 1 .. Len(c.observers)
        PROVE  /\ ~(i <= 0) /\ c.called[c.observers[i]] = 0
               /\ c.observers[i] \in c.atStart => ~c.willBeUnregistered[c.observers[i]]
    <3>1. ~(i <= 0) /\ c.called[c.observers[i]] = 0
      <4>1. i \in 1 .. Len(b.observers) /\ c.observers[i] \in Observers
        BY <1>2, <1>6
      <4>2. ~(i <= 0)
        BY <4>1
      <4>3. c.called = none /\ none[c.observers[i]] = 0
        BY <1>1, <1>3, <4>1, Zenon
      <4> QED BY <4>2, <4>3, Zenon
    <3>2. c.observers[i] \in c.atStart => ~c.willBeUnregistered[c.observers[i]]
      BY <1>1, <1>2, <1>4, Zenon
    <3> QED BY <3>1, <3>2, Zenon
  <2>2. c.atStart \subseteq ToSet(c.observers)
    BY <1>1, <1>2, <1>3
  <2> QED BY <2>1, <2>2 DEF WalkedTo
<1>10. WalkedTo(c, 1 - 1) /\ 1 \in 1 .. Len(c.observers)
  BY <1>2, <1>6, <1>9
<1>11. /\ ObserverShape(Observables!Visit(c, 1)) /\ CreatedInOrder(Observables!Visit(c, 1))
       /\ OnlyOnce(Observables!Visit(c, 1)) /\ WalkIsTrue(Observables!Visit(c, 1))
  BY <1>5, <1>7, <1>8, <1>10, VisitKeeps
<1> QED BY <1>11, Zenon DEF ObservedRight

(* Only the cursor, or what a callback said of the walk, changes.          *)
LEMMA WalkSteps ==
  ASSUME NEW b, ObservedRight(b), NEW skip \in BOOLEAN
  PROVE  /\ ObservedRight([b EXCEPT !.skipNextObservers = skip])
         /\ (b.cursor = Len(b.observers) \/ b.skipNextObservers) /\ b.cursor # 0 =>
               ObservedRight([b EXCEPT !.cursor = 0, !.whole = ~b.skipNextObservers])
<1>1. ASSUME NEW d, DOMAIN d = ObserverFields,
             \A f \in ObserverFields \ {"skipNextObservers", "cursor", "whole"} : d[f] = b[f],
             d.skipNextObservers \in BOOLEAN, d.whole \in BOOLEAN,
             d.cursor \in 0 .. Len(b.observers), WalkIsTrue(d)
      PROVE  ObservedRight(d)
  <2>1. /\ d.mask = b.mask /\ d.unregisterOnNextCall = b.unregisterOnNextCall
        /\ d.willBeUnregistered = b.willBeUnregistered /\ d.created = b.created
        /\ d.called = b.called /\ d.calledEver = b.calledEver /\ d.atStart = b.atStart
        /\ d.chain = b.chain /\ d.observers = b.observers
    BY <1>1 DEF ObserverFields
  <2>2. ObserverShape(d)
    BY <1>1, <2>1 DEF ObservedRight, ObserverShape
  <2>3. CreatedInOrder(d)
    BY <2>1 DEF ObservedRight, CreatedInOrder
  <2>4. OnlyOnce(d)
    BY <2>1 DEF ObservedRight, OnlyOnce
  <2> QED BY <1>1, <2>2, <2>3, <2>4 DEF ObservedRight
<1>2. ObservedRight([b EXCEPT !.skipNextObservers = skip])
  <2> DEFINE d == [b EXCEPT !.skipNextObservers = skip]
  <2>1. /\ DOMAIN d = ObserverFields /\ d.skipNextObservers = skip
        /\ \A f \in ObserverFields \ {"skipNextObservers"} : d[f] = b[f]
    BY DEF ObservedRight, ObserverShape, ObserverFields
  <2> HIDE DEF d
  <2>2. /\ d.cursor = b.cursor /\ d.whole = b.whole /\ d.observers = b.observers
        /\ d.atStart = b.atStart /\ d.mask = b.mask /\ d.eventMask = b.eventMask
        /\ d.called = b.called /\ d.willBeUnregistered = b.willBeUnregistered
    BY <2>1 DEF ObserverFields
  <2>3. WalkIsTrue(d)
    <3>1. \A k : WalkedTo(b, k) => WalkedTo(d, k)
      BY <2>2, Zenon DEF WalkedTo, Reached
    <3> QED BY <2>2, <3>1, Zenon DEF ObservedRight, WalkIsTrue, Reached
  <2>4. ObservedRight(d)
    BY <1>1, <2>1, <2>2, <2>3 DEF ObservedRight, ObserverShape
  <2> QED BY <2>4 DEF d
<1>3. ASSUME b.cursor = Len(b.observers) \/ b.skipNextObservers, b.cursor # 0
      PROVE  ObservedRight([b EXCEPT !.cursor = 0, !.whole = ~b.skipNextObservers])
  <2> DEFINE w == ~b.skipNextObservers
             d == [b EXCEPT !.cursor = 0, !.whole = w]
  <2>1. /\ DOMAIN d = ObserverFields /\ d.cursor = 0 /\ d.whole = w
        /\ \A f \in ObserverFields \ {"cursor", "whole"} : d[f] = b[f]
    BY DEF ObservedRight, ObserverShape, ObserverFields
  <2>2. w \in BOOLEAN /\ (w => ~b.skipNextObservers)
    OBVIOUS
  <2> HIDE DEF d, w
  <2>3. /\ d.atStart = b.atStart /\ d.mask = b.mask /\ d.eventMask = b.eventMask
        /\ d.called = b.called /\ d.skipNextObservers = b.skipNextObservers
    BY <2>1 DEF ObserverFields
  <2>4. ASSUME d.whole, NEW o \in b.atStart PROVE Reached(d, o)
    <3>1. b.cursor = Len(b.observers)
      BY <1>3, <2>1, <2>2, <2>4, Zenon
    <3>2. WalkedTo(b, Len(b.observers))
      BY <1>3, <3>1 DEF ObservedRight, WalkIsTrue
    <3>3. PICK i \in 1 .. Len(b.observers) : b.observers[i] = o
      BY <3>2 DEF WalkedTo, ToSet, ObservedRight, ObserverShape
    <3>4. Reached(b, o)
      BY <3>2, <3>3 DEF WalkedTo
    <3> QED BY <2>3, <3>4 DEF Reached
  <2>5. WalkIsTrue(d)
    BY <2>1, <2>3, <2>4 DEF WalkIsTrue
  <2>6. 0 \in 0 .. Len(b.observers) /\ b.skipNextObservers \in BOOLEAN
    BY DEF ObservedRight, ObserverShape
  <2>7. ObservedRight(d)
    BY <1>1, <2>1, <2>2, <2>3, <2>5, <2>6
  <2> QED BY <2>7 DEF d, w
<1> QED BY <1>2, <1>3

(* The observers of its moment go into the chain; those of addOnce are on  *)
(* their way out.                                                          *)
LEMMA ChainKeepsObservers ==
  ASSUME NEW b, ObservedRight(b), NEW mask
  PROVE  ObservedRight(Observables!Chained(b, mask))
<1> DEFINE chosen  == Observables!Chosen(b, mask)
           c       == Observables!Begun(b, mask)
           leaving == {o \in {b.observers[i] : i \in chosen} : b.unregisterOnNextCall[o]}
           d       == Observables!_deferUnregister(c, leaving)
<1>1. /\ chosen \subseteq DOMAIN b.observers
      /\ \A i \in chosen : ~b.willBeUnregistered[b.observers[i]]
  BY Zenon DEF Observables!Chosen
<1>2. /\ DOMAIN c = ObserverFields /\ c.skipNextObservers = FALSE
      /\ c.chain = [i \in chosen |-> b.observers[i]]
      /\ \A f \in ObserverFields \ {"skipNextObservers", "chain"} : c[f] = b[f]
  BY DEF ObservedRight, ObserverShape, ObserverFields, Observables!Begun
<1>3. /\ \A o \in leaving : \E i \in chosen : o = b.observers[i]
      /\ \A i \in chosen : b.unregisterOnNextCall[b.observers[i]] => b.observers[i] \in leaving
  BY Zenon
<1>4. Observables!Chained(b, mask) = d
  BY Zenon DEF Observables!Chained
<1> HIDE DEF chosen, c, leaving, d
<1>5. /\ c.mask = b.mask /\ c.unregisterOnNextCall = b.unregisterOnNextCall
      /\ c.willBeUnregistered = b.willBeUnregistered /\ c.created = b.created
      /\ c.called = b.called /\ c.calledEver = b.calledEver /\ c.atStart = b.atStart
      /\ c.cursor = b.cursor /\ c.observers = b.observers /\ c.eventMask = b.eventMask
      /\ c.whole = b.whole
  BY <1>2 DEF ObserverFields
<1>6. /\ DOMAIN b.observers = 1 .. Len(b.observers)
      /\ \A i \in DOMAIN b.observers : b.observers[i] \in Observers /\ b.observers[i] \in ToSet(b.observers)
      /\ \A i, j \in DOMAIN b.observers : b.observers[i] = b.observers[j] => i = j
  BY DEF ObservedRight, ObserverShape, IsInjective, ToSet
<1>7. /\ DOMAIN c.chain = chosen /\ \A i \in chosen : c.chain[i] = b.observers[i]
  BY <1>2
<1>8. ObserverShape(c)
  BY <1>1, <1>2, <1>5, <1>6, <1>7 DEF ObservedRight, ObserverShape
<1>9. CreatedInOrder(c)
  BY <1>1, <1>5, <1>6, <1>7 DEF ObservedRight, CreatedInOrder
<1>10. WalkIsTrue(c)
  <2>1. \A k : WalkedTo(b, k) => WalkedTo(c, k)
    BY <1>5, Zenon DEF WalkedTo, Reached
  <2> QED BY <1>5, <2>1, Zenon DEF ObservedRight, WalkIsTrue, Reached
<1>11. /\ ObserverShape(d) /\ CreatedInOrder(d) /\ WalkIsTrue(d)
  BY <1>8, <1>9, <1>10, DeferKeeps DEF d
<1>12. /\ \A o \in Observers :
            /\ d.unregisterOnNextCall[o] <=> (c.unregisterOnNextCall[o] /\ o \notin leaving)
            /\ d.willBeUnregistered[o] <=> (c.willBeUnregistered[o] \/ o \in leaving)
       /\ \A f \in ObserverFields \ {"unregisterOnNextCall", "willBeUnregistered", "microtasks", "atStart"} :
            d[f] = c[f]
  BY <1>8, DeferredFields DEF d
<1>13. d.chain = c.chain /\ d.calledEver = b.calledEver /\ d.observers = b.observers
  BY <1>5, <1>12 DEF ObserverFields
<1>14. OnceObservers \subseteq Observers
  BY CoreAssumption DEF CoreAssumption, Observables!ObservableAssumption
<1>15. OnlyOnce(d)
  <2>1. ASSUME NEW o \in OnceObservers, ~d.willBeUnregistered[o]
        PROVE  /\ d.calledEver[o] = 0
               /\ o \in ToSet(d.observers) => d.unregisterOnNextCall[o]
               /\ \A i \in DOMAIN d.chain : d.chain[i] # o
    <3>1. ~b.willBeUnregistered[o] /\ o \notin leaving
      BY <1>5, <1>12, <1>14, <2>1, Zenon
    <3>2. /\ b.calledEver[o] = 0
          /\ o \in ToSet(b.observers) => b.unregisterOnNextCall[o]
      BY <3>1, Zenon DEF ObservedRight, OnlyOnce
    <3>3. b.unregisterOnNextCall[o] => d.unregisterOnNextCall[o]
      BY <1>5, <1>12, <1>14, <3>1, Zenon
    <3>4. ASSUME NEW i \in chosen PROVE b.observers[i] # o
      <4>1. SUFFICES ASSUME b.observers[i] = o PROVE FALSE
        OBVIOUS
      <4>2. o \in ToSet(b.observers) /\ i \in chosen
        BY <1>1, <1>6, <4>1
      <4>3. b.unregisterOnNextCall[b.observers[i]]
        BY <3>2, <4>1, <4>2, Zenon
      <4> QED BY <1>3, <3>1, <4>1, <4>3, Zenon
    <3> QED BY <1>7, <1>13, <3>2, <3>3, <3>4, Zenon
  <2>2. ASSUME NEW i \in chosen, b.observers[i] \in OnceObservers
        PROVE  b.calledEver[b.observers[i]] = 0
    BY <1>1, <2>2, Zenon DEF ObservedRight, OnlyOnce
  <2>3. /\ \A i \in DOMAIN d.chain : d.chain[i] \in OnceObservers => d.calledEver[d.chain[i]] = 0
        /\ \A i, j \in DOMAIN d.chain : d.chain[i] = d.chain[j] => i = j
    BY <1>1, <1>6, <1>7, <1>13, <2>2
  <2> QED BY <2>1, <2>3, Zenon DEF OnlyOnce
<1> QED BY <1>4, <1>11, <1>15, Zenon DEF ObservedRight

(* The observer of the chain's first promise is called and leaves it.      *)
LEMMA PromiseKeepsObservers ==
  ASSUME NEW b, ObservedRight(b), b.cursor = 0, NEW i \in DOMAIN b.chain,
         NEW others \in SUBSET (DOMAIN b.chain \ {i}),
         NEW d, d = [b EXCEPT !.chain = [j \in others |-> @[j]],
                              !.calledEver[b.chain[i]] =
                                 IF b.chain[i] \in OnceObservers THEN @ + 1 ELSE 0]
  PROVE  ObservedRight(d)
<1> DEFINE o == b.chain[i]
           chain == [j \in others |-> b.chain[j]]
           ever  == IF o \in OnceObservers THEN b.calledEver[o] + 1 ELSE 0
<1>1. /\ DOMAIN d = ObserverFields /\ d.chain = chain
      /\ d.calledEver = [b.calledEver EXCEPT ![o] = ever]
      /\ \A f \in ObserverFields \ {"chain", "calledEver"} : d[f] = b[f]
  BY DEF ObservedRight, ObserverShape, ObserverFields
<1>2. /\ d.mask = b.mask /\ d.unregisterOnNextCall = b.unregisterOnNextCall
      /\ d.willBeUnregistered = b.willBeUnregistered /\ d.created = b.created
      /\ d.called = b.called /\ d.atStart = b.atStart /\ d.whole = b.whole
      /\ d.cursor = b.cursor /\ d.observers = b.observers /\ d.eventMask = b.eventMask
      /\ d.skipNextObservers = b.skipNextObservers
  BY <1>1 DEF ObserverFields
<1>3. OnceObservers \subseteq Observers
  BY CoreAssumption DEF CoreAssumption, Observables!ObservableAssumption
<1>4. DOMAIN d.chain = others /\ \A j \in others : d.chain[j] = b.chain[j] /\ j # i /\ j \in DOMAIN b.chain
  <2>1. others \subseteq DOMAIN b.chain \ {i}
    OBVIOUS
  <2>2. DOMAIN chain = others /\ \A j \in others : chain[j] = b.chain[j]
    OBVIOUS
  <2> HIDE DEF chain
  <2> QED BY <1>1, <2>1, <2>2
<1>5. /\ \A j \in DOMAIN b.chain : b.chain[j] \in OnceObservers => b.calledEver[b.chain[j]] = 0
      /\ \A j, k \in DOMAIN b.chain : b.chain[j] = b.chain[k] => j = k
  BY Zenon DEF ObservedRight, OnlyOnce
<1>6. ever \in {0, 1} /\ o \in Observers /\ \A j \in others : b.chain[j] # o
  BY <1>4, <1>5 DEF ObservedRight, ObserverShape
<1>7. o \in OnceObservers => b.willBeUnregistered[o]
  BY Zenon DEF ObservedRight, OnlyOnce
<1> HIDE DEF o, chain, ever
<1>8. /\ d.calledEver \in [Observers -> {0, 1}]
      /\ \A p \in Observers \ {o} : d.calledEver[p] = b.calledEver[p]
  <2>1. b.calledEver \in [Observers -> {0, 1}]
    BY DEF ObservedRight, ObserverShape
  <2>2. d.calledEver = [b.calledEver EXCEPT ![o] = ever]
    BY <1>1
  <2>3. ever \in {0, 1} /\ o \in Observers
    BY <1>6
  <2> QED BY <2>1, <2>2, <2>3
<1>9. ObserverShape(d)
  BY <1>1, <1>2, <1>4, <1>8 DEF ObservedRight, ObserverShape
<1>10. CreatedInOrder(d)
  <2>1. o <= b.created /\ o \in Nat /\ b.created \in Nat /\ Observers \subseteq Nat
    BY <1>6, CoreAssumption
       DEF o, ObservedRight, CreatedInOrder, ObserverShape, CoreAssumption, Observables!ObservableAssumption
  <2>2. \A p \in Observers : p > b.created => p # o
    BY <2>1
  <2> QED BY <1>2, <1>4, <1>8, <2>2 DEF ObservedRight, CreatedInOrder
<1>11. WalkIsTrue(d)
  BY <1>2 DEF ObservedRight, WalkIsTrue, Reached
<1>12. OnlyOnce(d)
  <2>1. ASSUME NEW p \in OnceObservers, ~d.willBeUnregistered[p]
        PROVE  /\ d.calledEver[p] = 0
               /\ p \in ToSet(d.observers) => d.unregisterOnNextCall[p]
               /\ \A j \in DOMAIN d.chain : d.chain[j] # p
    <3>1. /\ b.calledEver[p] = 0 /\ ~b.willBeUnregistered[p]
          /\ p \in ToSet(b.observers) => b.unregisterOnNextCall[p]
          /\ \A j \in DOMAIN b.chain : b.chain[j] # p
      BY <1>2, <2>1, Zenon DEF ObservedRight, OnlyOnce
    <3>2. p # o
      BY <1>7, <2>1, <3>1, Zenon
    <3>3. d.calledEver[p] = 0
      BY <1>3, <1>8, <2>1, <3>1, <3>2
    <3>4. \A j \in DOMAIN d.chain : d.chain[j] # p
      BY <1>4, <3>1
    <3> QED BY <1>2, <3>1, <3>3, <3>4, Zenon
  <2>2. /\ \A j \in DOMAIN d.chain : d.chain[j] \in OnceObservers => d.calledEver[d.chain[j]] = 0
        /\ \A j, k \in DOMAIN d.chain : d.chain[j] = d.chain[k] => j = k
    <3>1. \A j \in others : b.chain[j] \in Observers \ {o}
      BY <1>4, <1>6 DEF ObservedRight, ObserverShape
    <3> QED BY <1>4, <1>5, <1>8, <3>1
  <2> QED BY <2>1, <2>2, Zenon DEF OnlyOnce
<1> QED BY <1>9, <1>10, <1>11, <1>12 DEF ObservedRight

-----------------------------------------------------------------------------
(* Nobody is registered at the start.                                      *)
LEMMA ObserversStart ==
  Observables!Init => ObserverInv
<1> SUFFICES ASSUME Observables!Init PROVE ObserverInv
  OBVIOUS
<1>1. /\ DOMAIN state = ObserverFields /\ state.observers = <<>> /\ state.created = 0
      /\ state.cursor = 0 /\ state.atStart = {} /\ DOMAIN state.chain = {}
      /\ state.called = [o \in Observers |-> 0] /\ state.calledEver = [o \in Observers |-> 0]
      /\ state.skipNextObservers = FALSE /\ state.whole = FALSE /\ DOMAIN state.mask = Observers
  BY DEF Observables!Init, Observables!ObservableInit, ObserverFields
<1>2. /\ state.unregisterOnNextCall = [o \in Observers |-> FALSE]
      /\ state.willBeUnregistered = [o \in Observers |-> FALSE]
  BY DEF Observables!Init, Observables!ObservableInit
<1>3. /\ [o \in Observers |-> FALSE] \in [Observers -> BOOLEAN]
      /\ [o \in Observers |-> 0] \in [Observers -> {0, 1}]
      /\ \A o \in Observers : [p \in Observers |-> 0][o] = 0
  OBVIOUS
<1>4. /\ <<>> \in Seq(Observers) /\ IsInjective(<<>>) /\ Len(<<>>) = 0 /\ ToSet(<<>>) = {}
  BY DEF IsInjective, ToSet
<1>5. ObserverShape(state)
  <2>1. 0 \in 0 .. Len(state.observers)
    BY <1>1, <1>4
  <2>2. /\ state.unregisterOnNextCall \in [Observers -> BOOLEAN]
        /\ state.willBeUnregistered \in [Observers -> BOOLEAN]
    BY <1>2, <1>3, Zenon
  <2>3. /\ DOMAIN state = ObserverFields
        /\ state.observers \in Seq(Observers) /\ IsInjective(state.observers)
        /\ state.created \in Nat /\ state.cursor \in 0 .. Len(state.observers)
        /\ DOMAIN state.mask = Observers
        /\ \A i \in DOMAIN state.chain : state.chain[i] \in Observers
    BY <1>1, <1>4, <2>1
  <2>4. /\ state.called \in [Observers -> {0, 1}] /\ state.calledEver \in [Observers -> {0, 1}]
        /\ state.skipNextObservers \in BOOLEAN /\ state.whole \in BOOLEAN
    <3>1. FALSE \in BOOLEAN
      OBVIOUS
    <3> QED BY <1>1, <1>3, <3>1, Zenon
  <2> QED BY <2>2, <2>3, <2>4, Zenon DEF ObserverShape
<1>6. CreatedInOrder(state)
  BY <1>1, <1>3, <1>4 DEF CreatedInOrder
<1>7. OnlyOnce(state)
  <2>1. OnceObservers \subseteq Observers
    BY CoreAssumption DEF CoreAssumption, Observables!ObservableAssumption
  <2> QED BY <1>1, <1>3, <1>4, <2>1 DEF OnlyOnce
<1>8. WalkIsTrue(state)
  BY <1>1 DEF WalkIsTrue
<1> QED BY <1>5, <1>6, <1>7, <1>8 DEF ObserverInv, ObservedRight

(* Every step of the observable keeps the invariant.                       *)
LEMMA ObserverStep ==
  ASSUME ObserverInv, Observables!Next PROVE ObserverInv'
<1>0. ObservedRight(state)
  BY DEF ObserverInv
<1>1. SUFFICES ObservedRight(state')
  BY DEF ObserverInv, ObservedRight, ObserverShape, CreatedInOrder, OnlyOnce, WalkIsTrue, WalkedTo,
         Reached
<1>2. ASSUME Observables!notifyObserver PROVE ObservedRight(state')
  <2>1. state' = [state EXCEPT !.skipNextObservers = FALSE]
    BY <1>2 DEF Observables!notifyObserver
  <2>2. ObservedRight([state EXCEPT !.skipNextObservers = FALSE])
    BY <1>0, WalkSteps
  <2> QED BY <2>1, <2>2
<1>3. ASSUME Observables!Skip PROVE ObservedRight(state')
  <2>1. state' = [state EXCEPT !.skipNextObservers = TRUE]
    BY <1>3 DEF Observables!Skip
  <2>2. ObservedRight([state EXCEPT !.skipNextObservers = TRUE])
    BY <1>0, WalkSteps
  <2> QED BY <2>1, <2>2
<1>4. ASSUME Observables!NotifyReturns PROVE ObservedRight(state')
  <2>1. /\ state' = [state EXCEPT !.cursor = 0, !.whole = ~state.skipNextObservers]
        /\ state.cursor # 0 /\ (state.skipNextObservers \/ state.cursor = Len(state.observers))
    BY <1>4, Zenon DEF Observables!NotifyReturns, Observables!Walking
  <2>2. ObservedRight([state EXCEPT !.cursor = 0, !.whole = ~state.skipNextObservers])
    <3>1. /\ TRUE \in BOOLEAN
          /\ (state.cursor = Len(state.observers) \/ state.skipNextObservers) /\ state.cursor # 0
      BY <2>1, Zenon
    <3> QED BY <1>0, <3>1, WalkSteps, Zenon
  <2> QED BY <2>1, <2>2, Zenon
<1>5. ASSUME Observables!clear PROVE ObservedRight(state')
  <2> DEFINE d == [state EXCEPT !.observers = <<>>, !.microtasks = state.microtasks]
  <2>1. state' = [state EXCEPT !.observers = <<>>] /\ state.cursor = 0
    BY <1>5 DEF Observables!clear, Observables!Walking
  <2>2. state' = d
    BY <1>0, <2>1 DEF ObservedRight, ObserverShape, ObserverFields
  <2>3. /\ <<>> \in Seq(Observers) /\ IsInjective(<<>>)
        /\ ToSet(<<>>) \subseteq ToSet(state.observers)
    BY DEF IsInjective, ToSet
  <2>4. ObservedRight(d)
    BY <1>0, <2>1, <2>3, RemovalKeepsObservers
  <2> QED BY <2>2, <2>4
<1>6. ASSUME NEW o \in Observers, Observables!remove(o) PROVE ObservedRight(state')
  <2>1. state' = Observables!_deferUnregister(state, {o})
    BY <1>6 DEF Observables!remove
  <2>2. /\ ObserverShape(Observables!_deferUnregister(state, {o}))
        /\ CreatedInOrder(Observables!_deferUnregister(state, {o}))
        /\ WalkIsTrue(Observables!_deferUnregister(state, {o}))
        /\ OnlyOnce(Observables!_deferUnregister(state, {o}))
    BY <1>0, DeferKeeps DEF ObservedRight
  <2> QED BY <2>1, <2>2, Zenon DEF ObservedRight
<1>7. ASSUME NEW o \in Observers, Observables!_remove(o) PROVE ObservedRight(state')
  <2>1. state.cursor = 0
    BY <1>7 DEF Observables!_remove, Observables!Walking
  <2>2. state.observers \in Seq(Observers) /\ IsInjective(state.observers)
    BY <1>0 DEF ObservedRight, ObserverShape
  <2>3. PICK l : /\ l \in Seq(Observers) /\ IsInjective(l) /\ ToSet(l) \subseteq ToSet(state.observers)
                 /\ state' = [state EXCEPT !.observers = l, !.microtasks = @ \ {o}]
    <3>1. CASE Observables!There(state, o)
      <4>1. PICK i \in DOMAIN state.observers :
                   state' = [state EXCEPT !.microtasks = @ \ {o},
                                          !.observers = RemoveAt(@, i)]
        BY <1>7, <3>1 DEF Observables!_remove, RemoveAt
      <4>2. i \in 1 .. Len(state.observers)
        BY <2>2, <4>1
      <4>3. /\ RemoveAt(state.observers, i) \in Seq(Observers)
            /\ IsInjective(RemoveAt(state.observers, i))
            /\ ToSet(RemoveAt(state.observers, i)) = ToSet(state.observers) \ {state.observers[i]}
        BY <2>2, <4>2, RemoveAtKeepsInjective
      <4>4. state' = [state EXCEPT !.observers = RemoveAt(state.observers, i), !.microtasks = @ \ {o}]
        BY <1>0, <4>1 DEF ObservedRight, ObserverShape, ObserverFields
      <4> QED BY <4>3, <4>4
    <3>2. CASE ~Observables!There(state, o)
      <4>1. state' = [state EXCEPT !.microtasks = @ \ {o}]
        BY <1>7, <3>2 DEF Observables!_remove
      <4>2. state' = [state EXCEPT !.observers = state.observers, !.microtasks = @ \ {o}]
        BY <1>0, <4>1 DEF ObservedRight, ObserverShape, ObserverFields
      <4> QED BY <2>2, <4>2
    <3> QED BY <3>1, <3>2
  <2>4. ObservedRight([state EXCEPT !.observers = l, !.microtasks = state.microtasks \ {o}])
    BY <1>0, <2>1, <2>3, RemovalKeepsObservers
  <2> QED BY <2>3, <2>4
<1>8. ASSUME NEW mask, NEW first \in BOOLEAN, Observables!add(first, mask) PROVE ObservedRight(state')
  <2> DEFINE o == state.created + 1
             l == IF first THEN <<o>> \o state.observers ELSE Append(state.observers, o)
             d == [state EXCEPT !.created = o, !.mask[o] = mask,
                                !.unregisterOnNextCall[o] = o \in OnceObservers, !.observers = l]
  <2>1. /\ o \in Observers /\ (first => state.cursor = 0) /\ state' = d
    BY <1>8 DEF Observables!add, Observables!Walking
  <2>2. ObservedRight(d)
    BY <1>0, <2>1, AddKeepsObservers
  <2> QED BY <2>1, <2>2
<1>9. ASSUME NEW mask, Observables!notifyObservers(mask) PROVE ObservedRight(state')
  <2> DEFINE c == [state EXCEPT !.eventMask = mask, !.skipNextObservers = FALSE, !.whole = FALSE,
                                !.called = [o \in Observers |-> 0],
                                !.atStart = {o \in ToSet(state.observers) :
                                               ~state.willBeUnregistered[o]}]
  <2>1. state.cursor = 0 /\ state.observers # <<>> /\ state' = Observables!Visit(c, 1)
    BY <1>9, ObserverOperators, Zenon DEF Observables!notifyObservers, Observables!Walking
  <2>2. ObservedRight(Observables!Visit(c, 1))
    BY <1>0, <2>1, NotifyKeepsObservers
  <2> QED BY <2>1, <2>2, Zenon
<1>10. ASSUME Observables!VisitNext PROVE ObservedRight(state')
  <2> DEFINE i == state.cursor + 1
  <2>1. /\ state' = Observables!Visit(state, i)
        /\ state.cursor # 0 /\ state.cursor < Len(state.observers)
    BY <1>10 DEF Observables!VisitNext, Observables!Walking
  <2>2. /\ i \in 1 .. Len(state.observers) /\ i - 1 = state.cursor
    BY <1>0, <2>1 DEF ObservedRight, ObserverShape
  <2>3. WalkedTo(state, i - 1)
    BY <1>0, <2>1, <2>2 DEF ObservedRight, WalkIsTrue
  <2> HIDE DEF i
  <2>4. /\ ObserverShape(Observables!Visit(state, i)) /\ CreatedInOrder(Observables!Visit(state, i))
        /\ OnlyOnce(Observables!Visit(state, i)) /\ WalkIsTrue(Observables!Visit(state, i))
    BY <1>0, <2>2, <2>3, VisitKeeps DEF ObservedRight
  <2> QED BY <2>1, <2>4, Zenon DEF ObservedRight
<1>11. ASSUME NEW mask, Observables!notifyObserversWithPromise(mask) PROVE ObservedRight(state')
  <2>1. state' = Observables!Chained(state, mask)
    BY <1>11 DEF Observables!notifyObserversWithPromise
  <2> QED BY <1>0, <2>1, ChainKeepsObservers
<1>12. ASSUME Observables!CallPromised PROVE ObservedRight(state')
  <2>0. PICK i \in DOMAIN state.chain : \E others \in SUBSET (DOMAIN state.chain \ {i}) :
          /\ state.cursor = 0
          /\ state' = [state EXCEPT
               !.chain = [j \in others |-> @[j]],
               !.calledEver[state.chain[i]] =
                  IF state.chain[i] \in OnceObservers THEN @ + 1 ELSE 0]
    BY <1>12, Zenon DEF Observables!CallPromised, Observables!Walking
  <2>1. PICK others \in SUBSET (DOMAIN state.chain \ {i}) :
          /\ state.cursor = 0
          /\ state' = [state EXCEPT
               !.chain = [j \in others |-> @[j]],
               !.calledEver[state.chain[i]] =
                  IF state.chain[i] \in OnceObservers THEN @ + 1 ELSE 0]
    BY <2>0, Zenon
  <2> QED BY <1>0, <2>1, PromiseKeepsObservers, Zenon
<1> QED BY <1>2, <1>3, <1>4, <1>5, <1>6, <1>7, <1>8, <1>9, <1>10, <1>11, <1>12
        DEF Observables!Next

(* So the observers of a notification hear it once.                        *)
LEMMA ObserversHearOnce ==
  ObserverInv => Observables!HeardAtMostOnce
<1> SUFFICES ASSUME ObservedRight(state) PROVE Observables!HeardAtMostOnce
  BY DEF ObserverInv
<1>1. OnceObservers \subseteq Observers
  BY CoreAssumption DEF CoreAssumption, Observables!ObservableAssumption
<1>2. /\ \A o \in Observers : state.called[o] <= 1
      /\ \A o \in OnceObservers : state.calledEver[o] <= 1
  BY <1>1 DEF ObservedRight, ObserverShape
<1>3. state.whole /\ state.cursor = 0 =>
        \A o \in state.atStart : state.mask[o] \cap state.eventMask # {} => state.called[o] = 1
  BY DEF ObservedRight, WalkIsTrue, Reached
<1> QED BY <1>2, <1>3 DEF Observables!HeardAtMostOnce, Observables!Walking

-----------------------------------------------------------------------------
(* The list of systems.                                                    *)
(* The elements at the first places of a sequence.                         *)
Early(s, k) == {s[i] : i \in {j \in DOMAIN s : j <= k}}

LEMMA EarlyAfterRemoval ==
  ASSUME NEW T, NEW s \in Seq(T), IsInjective(s), NEW i \in 1 .. Len(s), NEW k \in Nat
  PROVE  LET r == RemoveAt(s, i) IN
         /\ Early(s, k) \ {s[i]} \subseteq Early(r, k)
         /\ i > k => Early(r, k) \subseteq Early(s, k)
         /\ \E y : Early(r, k) \subseteq Early(s, k) \cup {y}
<1> DEFINE r == RemoveAt(s, i)
<1>1. /\ r \in Seq(T) /\ Len(r) = Len(s) - 1 /\ Len(s) \in Nat
      /\ \A j \in 1 .. Len(s) - 1 : r[j] = IF j < i THEN s[j] ELSE s[j + 1]
  BY RemoveAtIs
<1> HIDE DEF r
<1>2. DOMAIN r = 1 .. Len(s) - 1 /\ DOMAIN s = 1 .. Len(s)
  BY <1>1
<1>3. ASSUME NEW j \in DOMAIN s, j <= k, j # i PROVE s[j] \in Early(r, k)
  <2>1. CASE j < i
    <3>1. j \in DOMAIN r /\ r[j] = s[j]
      BY <1>1, <1>2, <2>1
    <3> QED BY <1>3, <3>1 DEF Early
  <2>2. CASE j > i
    <3>1. j - 1 \in DOMAIN r /\ r[j - 1] = s[j] /\ j - 1 <= k
      BY <1>1, <1>2, <1>3, <2>2
    <3> QED BY <3>1 DEF Early
  <2> QED BY <1>2, <1>3, <2>1, <2>2
<1>4. ASSUME NEW j \in DOMAIN r, j <= k PROVE r[j] \in Early(s, k) \/ (i <= k /\ r[j] = s[k + 1])
  <2>1. CASE j < i
    <3>1. j \in DOMAIN s /\ r[j] = s[j]
      BY <1>1, <1>2, <2>1
    <3> QED BY <1>4, <3>1 DEF Early
  <2>2. CASE j >= i
    <3>1. j + 1 \in DOMAIN s /\ r[j] = s[j + 1] /\ i <= k /\ (j + 1 <= k \/ j + 1 = k + 1)
      BY <1>1, <1>2, <1>4, <2>2
    <3> QED BY <3>1 DEF Early
  <2> QED BY <1>2, <2>1, <2>2
<1>5. Early(s, k) \ {s[i]} \subseteq Early(r, k)
  BY <1>3 DEF Early
<1>6. i > k => Early(r, k) \subseteq Early(s, k)
  BY <1>4 DEF Early
<1>7. Early(r, k) \subseteq Early(s, k) \cup {s[k + 1]}
  BY <1>4 DEF Early
<1> QED BY <1>5, <1>6, <1>7 DEF r

LEMMA EarlyAfterInsertion ==
  ASSUME NEW T, NEW s \in Seq(T), NEW x \in T, NEW p \in 1 .. Len(s) + 1, NEW k \in Nat
  PROVE  LET r == InsertAt(s, p, x) IN
         /\ Early(r, k) \subseteq Early(s, k) \cup {x}
         /\ p > k => Early(s, k) \subseteq Early(r, k)
         /\ \E y : Early(s, k) \ {y} \subseteq Early(r, k)
<1> DEFINE r == InsertAt(s, p, x)
<1>0. Len(s) \in Nat
  OBVIOUS
<1>1. /\ r \in Seq(T) /\ Len(r) = Len(s) + 1 /\ Len(s) \in Nat
      /\ \A j \in 1 .. Len(s) + 1 : r[j] = IF j < p THEN s[j] ELSE IF j = p THEN x ELSE s[j - 1]
  <2> HIDE DEF r
  <2>0. IsInsertion(T, r, s, p, x)
    <3>0. s \in Seq(T) /\ x \in T /\ p \in 1 .. Len(s) + 1
      OBVIOUS
    <3>1. IsInsertion(T, InsertAt(s, p, x), s, p, x)
      BY <3>0, InsertAtIs, Zenon
    <3>2. r = InsertAt(s, p, x)
      BY DEF r
    <3> QED BY <3>1, <3>2, Zenon
  <2>1. /\ r \in Seq(T) /\ Len(r) = Len(s) + 1
        /\ \A j \in 1 .. Len(s) + 1 : r[j] = IF j < p THEN s[j] ELSE IF j = p THEN x ELSE s[j - 1]
    BY <2>0, Zenon DEF IsInsertion
  <2> QED BY <1>0, <2>1, Zenon
<1> HIDE DEF r
<1>2. DOMAIN r = 1 .. Len(s) + 1 /\ DOMAIN s = 1 .. Len(s)
  BY <1>1
<1>3. ASSUME NEW j \in DOMAIN r, j <= k PROVE r[j] \in Early(s, k) \cup {x}
  <2>1. CASE j < p
    <3>1. j \in DOMAIN s /\ r[j] = s[j]
      BY <1>1, <1>2, <2>1
    <3> QED BY <1>3, <3>1 DEF Early
  <2>2. CASE j = p
    BY <1>1, <1>2, <2>2
  <2>3. CASE j > p
    <3>1. j - 1 \in DOMAIN s /\ r[j] = s[j - 1] /\ j - 1 <= k
      BY <1>1, <1>2, <1>3, <2>3
    <3> QED BY <3>1 DEF Early
  <2> QED BY <1>2, <2>1, <2>2, <2>3
<1>4. ASSUME NEW j \in DOMAIN s, j <= k PROVE s[j] \in Early(r, k) \/ (p <= k /\ s[j] = s[k])
  <2>1. CASE j < p
    <3>1. j \in DOMAIN r /\ r[j] = s[j]
      BY <1>1, <1>2, <2>1
    <3> QED BY <1>4, <3>1 DEF Early
  <2>2. CASE j >= p
    <3>1. j + 1 \in DOMAIN r /\ r[j + 1] = s[j] /\ p <= k /\ (j + 1 <= k \/ j = k)
      BY <1>1, <1>2, <1>4, <2>2
    <3> QED BY <3>1 DEF Early
  <2> QED BY <1>2, <2>1, <2>2
<1>5. Early(r, k) \subseteq Early(s, k) \cup {x}
  BY <1>3 DEF Early
<1>6. p > k => Early(s, k) \subseteq Early(r, k)
  BY <1>4 DEF Early
<1>7. Early(s, k) \ {s[k]} \subseteq Early(r, k)
  BY <1>4 DEF Early
<1> QED BY <1>5, <1>6, <1>7 DEF r

-----------------------------------------------------------------------------
ListFields ==
  {"systems", "cursor", "tasks", "pending", "released", "ran", "atStart", "removedBefore",
   "addedBefore", "started", "calls"}

ListShape(b) ==
  /\ DOMAIN b = ListFields
  /\ b.systems \in Seq(ListSystems) /\ IsInjective(b.systems)
  /\ b.cursor \in Nat /\ b.removedBefore \in Nat /\ b.addedBefore \in Nat
  /\ b.ran \in [ListSystems -> Nat] /\ b.atStart \subseteq ListSystems
  /\ IsFiniteSet(b.atStart) /\ b.released \in BOOLEAN

(* A task is queued once, before it is started.                            *)
TasksOnce(b) ==
  /\ b.tasks \in Seq(Tasks) /\ b.started \in [Tasks -> {0, 1}]
  /\ \A t \in ToSet(b.tasks) : b.started[t] = 0

(* Those of the start that did not run, and how often others ran again;    *)
(* in a walk up to k, those passed over, and those that will run again.    *)
NotRun(b)   == {s \in b.atStart : b.ran[s] = 0}
Reruns(b)   == UNION {{s} \X (2 .. b.ran[s]) : s \in b.atStart}
Passed(b, k) == NotRun(b) \cap Early(b.systems, k)
Ahead(b, k)  == {s \in b.atStart : b.ran[s] # 0} \ Early(b.systems, k)

CountedTo(b, k) ==
  /\ b.atStart \subseteq ToSet(b.systems)
  /\ Cardinality(Passed(b, k)) <= b.removedBefore
  /\ Cardinality(Reruns(b)) + Cardinality(Ahead(b, k)) <= b.addedBefore

WalkIsCounted(b) ==
  /\ b.cursor # 0 => ~b.released /\ CountedTo(b, b.cursor)
  /\ b.cursor = 0 /\ b.released =>
       /\ Cardinality(NotRun(b)) <= b.removedBefore
       /\ Cardinality(Reruns(b)) <= b.addedBefore

ListRight(b) == ListShape(b) /\ TasksOnce(b) /\ WalkIsCounted(b)
ListInv == ListRight(state)

LEMMA ListOperators ==
  /\ \A s : List!Range(s) = ToSet(s)
  /\ \A s : List!Cardinality(s) = Cardinality(s)
<1>1. ASSUME NEW s PROVE List!Range(s) = ToSet(s)
  BY DEF List!Range, ToSet
<1>2. ASSUME NEW s PROVE List!Cardinality(s) = Cardinality(s)
  BY Zenon DEF List!Cardinality, Cardinality
<1> QED BY <1>1, <1>2

(* The sets that are counted are finite.                                   *)
LEMMA CountsAreFinite ==
  ASSUME NEW b, ListShape(b), NEW k
  PROVE  /\ IsFiniteSet(NotRun(b)) /\ IsFiniteSet(Reruns(b))
         /\ IsFiniteSet(Passed(b, k)) /\ IsFiniteSet(Ahead(b, k))
         /\ Cardinality(NotRun(b)) \in Nat /\ Cardinality(Reruns(b)) \in Nat
         /\ Cardinality(Passed(b, k)) \in Nat /\ Cardinality(Ahead(b, k)) \in Nat
<1>1. IsFiniteSet(NotRun(b)) /\ IsFiniteSet(Passed(b, k)) /\ IsFiniteSet(Ahead(b, k))
  <2>1. IsFiniteSet(b.atStart) /\ NotRun(b) \subseteq b.atStart
        /\ Passed(b, k) \subseteq b.atStart /\ Ahead(b, k) \subseteq b.atStart
    BY DEF ListShape, NotRun, Passed, Ahead
  <2> QED BY <2>1, FS_Subset
<1>2. IsFiniteSet(Reruns(b))
  <2> DEFINE of == [s \in b.atStart |-> {s} \X (2 .. b.ran[s])]
             parts == {{s} \X (2 .. b.ran[s]) : s \in b.atStart}
  <2>1. IsFiniteSet(parts)
    <3>1. of \in Surjection(b.atStart, parts)
      BY DEF Surjection
    <3> HIDE DEF of, parts
    <3> QED BY <3>1, FS_Surjection DEF ListShape
  <2>2. \A p \in parts : IsFiniteSet(p)
    <3>1. ASSUME NEW s \in b.atStart PROVE IsFiniteSet({s} \X (2 .. b.ran[s]))
      <4>1. b.ran[s] \in Int /\ 2 \in Int
        BY DEF ListShape
      <4>2. IsFiniteSet({s}) /\ IsFiniteSet(2 .. b.ran[s])
        BY <4>1, FS_Singleton, FS_Interval, Zenon
      <4> QED BY <4>2, FS_Product
    <3> QED BY <3>1
  <2> HIDE DEF parts
  <2>3. IsFiniteSet(UNION parts)
    BY <2>1, <2>2, FS_UNION
  <2> QED BY <2>3 DEF Reruns, parts
<1> QED BY <1>1, <1>2, FS_CardinalityType

(* No more in a smaller set, at most one more with another element.        *)
LEMMA CountOfSubset ==
  ASSUME NEW S, IsFiniteSet(S), NEW Q, NEW y
  PROVE  /\ Q \subseteq S => Cardinality(Q) <= Cardinality(S)
         /\ Q \subseteq S \cup {y} =>
              Cardinality(Q) \in Nat /\ Cardinality(S) \in Nat /\ Cardinality(Q) <= Cardinality(S) + 1
<1>1. ASSUME Q \subseteq S PROVE Cardinality(Q) <= Cardinality(S)
  BY <1>1, FS_Subset
<1>2. ASSUME Q \subseteq S \cup {y}
      PROVE  Cardinality(Q) \in Nat /\ Cardinality(S) \in Nat /\ Cardinality(Q) <= Cardinality(S) + 1
  <2>1. /\ IsFiniteSet(S \cup {y}) /\ Cardinality(S) \in Nat
        /\ Cardinality(S \cup {y}) = IF y \in S THEN Cardinality(S) ELSE Cardinality(S) + 1
    BY FS_AddElement, FS_CardinalityType
  <2>2. Cardinality(Q) <= Cardinality(S \cup {y}) /\ Cardinality(Q) \in Nat
    BY <1>2, <2>1, FS_Subset, FS_CardinalityType
  <2> QED BY <2>1, <2>2
<1> QED BY <1>1, <1>2

(* The system at the next place runs.                                      *)
LEMMA RunCounts ==
  ASSUME NEW b, ListShape(b), TasksOnce(b), ~b.released,
         NEW i \in 1 .. Len(b.systems), CountedTo(b, i - 1)
  PROVE  ListRight(List!RunAt(b, i))
<1> DEFINE s == b.systems[i]
           d == List!RunAt(b, i)
           again == [t \in Tasks |-> IF t \in ToSet(b.tasks) THEN b.started[t] + 1 ELSE b.started[t]]
           k == i - 1
<1>1. /\ i \in Nat /\ i # 0 /\ k \in Nat /\ s \in ListSystems /\ s \in ToSet(b.systems)
      /\ DOMAIN b.systems = 1 .. Len(b.systems)
      /\ \A j \in 1 .. Len(b.systems) : b.systems[j] = s => j = i
  <2>1. Len(b.systems) \in Nat /\ DOMAIN b.systems = 1 .. Len(b.systems)
    BY DEF ListShape
  <2>2. s \in ListSystems /\ s \in ToSet(b.systems)
    BY <2>1 DEF ListShape, ToSet
  <2>3. \A j \in 1 .. Len(b.systems) : b.systems[j] = s => j = i
    BY <2>1 DEF ListShape, IsInjective
  <2>4. i \in Nat /\ i # 0 /\ k \in Nat
    BY <2>1
  <2> QED BY <2>1, <2>2, <2>3, <2>4
<1>2. /\ DOMAIN d = ListFields /\ d.cursor = i /\ d.ran = [b.ran EXCEPT ![s] = @ + 1]
      /\ \A f \in ListFields \ {"cursor", "ran", "tasks", "started"} : d[f] = b[f]
      /\ \/ d.tasks = b.tasks /\ d.started = b.started
         \/ d.tasks = <<>> /\ d.started = again
  BY ListOperators DEF List!RunAt, ListShape, ListFields
<1>3. /\ d.systems = b.systems /\ d.atStart = b.atStart /\ d.released = b.released
      /\ d.removedBefore = b.removedBefore /\ d.addedBefore = b.addedBefore
  BY <1>2 DEF ListFields
<1>4. again \in [Tasks -> {0, 1}]
  BY DEF TasksOnce
<1> HIDE DEF d, again
<1>5. /\ d.ran \in [ListSystems -> Nat] /\ d.ran[s] = b.ran[s] + 1 /\ b.ran[s] \in Nat
      /\ \A q \in ListSystems \ {s} : d.ran[q] = b.ran[q]
  <2>1. b.ran \in [ListSystems -> Nat]
    BY DEF ListShape
  <2> QED BY <1>1, <1>2, <2>1
<1>6. ListShape(d)
  BY <1>1, <1>2, <1>3, <1>5 DEF ListShape
<1>7. TasksOnce(d)
  <2>1. <<>> \in Seq(Tasks) /\ ToSet(<<>>) = {}
    BY DEF ToSet
  <2> QED BY <1>2, <1>4, <2>1 DEF TasksOnce
<1>8. Early(b.systems, i) = Early(b.systems, k) \cup {s} /\ s \notin Early(b.systems, k)
  <2>1. \A j \in 1 .. Len(b.systems) : (j <= i <=> j <= k \/ j = i) /\ (j <= k => j # i)
    BY <1>1
  <2> HIDE DEF k
  <2> QED BY <1>1, <2>1 DEF Early
<1> HIDE DEF s, k
<1>9. /\ IsFiniteSet(Passed(b, k)) /\ IsFiniteSet(Ahead(b, k)) /\ IsFiniteSet(Reruns(b))
      /\ Cardinality(Ahead(b, k)) \in Nat /\ Cardinality(Reruns(b)) \in Nat
  BY CountsAreFinite
<1>10. /\ b.atStart \subseteq ToSet(b.systems) /\ b.atStart \subseteq ListSystems
       /\ Cardinality(Passed(b, k)) <= b.removedBefore
       /\ Cardinality(Reruns(b)) + Cardinality(Ahead(b, k)) <= b.addedBefore
       /\ b.removedBefore \in Nat /\ b.addedBefore \in Nat
  BY DEF CountedTo, ListShape, k
<1>11. Cardinality(Passed(d, i)) <= d.removedBefore
  <2>1. Passed(d, i) \subseteq Passed(b, k)
    BY <1>3, <1>5, <1>8, <1>10 DEF Passed, NotRun
  <2>2. /\ Cardinality(Passed(d, i)) <= Cardinality(Passed(b, k))
        /\ Cardinality(Passed(d, i)) \in Nat /\ Cardinality(Passed(b, k)) \in Nat
    BY <1>9, <2>1, FS_Subset, FS_CardinalityType
  <2> QED BY <1>3, <1>10, <2>2
<1>12. Cardinality(Reruns(d)) + Cardinality(Ahead(d, i)) <= d.addedBefore
  <2>1. CASE s \in b.atStart /\ b.ran[s] # 0
    <3>1. Ahead(d, i) = Ahead(b, k) \ {s} /\ s \in Ahead(b, k)
      BY <1>3, <1>5, <1>8, <1>10, <2>1 DEF Ahead
    <3>2. Reruns(d) = Reruns(b) \cup {<<s, b.ran[s] + 1>>}
      <4>1. \A q \in b.atStart : q # s => 2 .. d.ran[q] = 2 .. b.ran[q]
        BY <1>5, <1>10
      <4>2. 2 .. d.ran[s] = (2 .. b.ran[s]) \cup {b.ran[s] + 1}
        BY <1>5, <2>1
      <4> DEFINE n == b.ran[s] + 1
      <4>3. ASSUME NEW x \in Reruns(d) PROVE x \in Reruns(b) \cup {<<s, n>>}
        <5>1. PICK q \in b.atStart : x \in {q} \X (2 .. d.ran[q])
          BY <1>3, <4>3 DEF Reruns
        <5>2. PICK j \in 2 .. d.ran[q] : x = <<q, j>>
          BY <5>1
        <5>3. CASE q = s
          BY <2>1, <4>2, <5>2, <5>3 DEF Reruns
        <5>4. CASE q # s
          <6>1. 2 .. d.ran[q] = 2 .. b.ran[q]
            BY <4>1, <5>4
          <6>2. x \in {q} \X (2 .. b.ran[q])
            BY <5>1, <6>1, Zenon
          <6> QED BY <6>2 DEF Reruns
        <5> QED BY <5>3, <5>4
      <4>4. ASSUME NEW x \in Reruns(b) \cup {<<s, n>>} PROVE x \in Reruns(d)
        <5>1. CASE x = <<s, n>>
          BY <1>3, <2>1, <4>2, <5>1 DEF Reruns
        <5>2. CASE x \in Reruns(b)
          <6>1. PICK q \in b.atStart : x \in {q} \X (2 .. b.ran[q])
            BY <5>2 DEF Reruns
          <6>2. 2 .. b.ran[q] \subseteq 2 .. d.ran[q]
            BY <4>1, <4>2
          <6> QED BY <1>3, <6>1, <6>2 DEF Reruns
        <5> QED BY <4>4, <5>1, <5>2
      <4> QED BY <4>3, <4>4
    <3>3. Cardinality(Ahead(d, i)) = Cardinality(Ahead(b, k)) - 1
      BY <1>9, <3>1, FS_RemoveElement
    <3>4. Cardinality(Reruns(d)) <= Cardinality(Reruns(b)) + 1 /\ Cardinality(Reruns(d)) \in Nat
      BY <1>9, <3>2, CountOfSubset, Zenon
    <3> QED BY <1>3, <1>9, <1>10, <3>3, <3>4
  <2>2. CASE ~(s \in b.atStart /\ b.ran[s] # 0)
    <3>1. Ahead(d, i) \subseteq Ahead(b, k)
      BY <1>3, <1>5, <1>8, <1>10 DEF Ahead
    <3>2. Reruns(d) \subseteq Reruns(b)
      <4>1. \A q \in b.atStart : 2 .. d.ran[q] = 2 .. b.ran[q]
        <5>1. ASSUME NEW q \in b.atStart PROVE 2 .. d.ran[q] = 2 .. b.ran[q]
          <6>1. CASE q = s
            BY <1>5, <2>2, <5>1, <6>1
          <6>2. CASE q # s
            BY <1>5, <1>10, <6>2
          <6> QED BY <6>1, <6>2
        <5> QED BY <5>1
      <4> QED BY <1>3, <4>1 DEF Reruns
    <3>3. /\ Cardinality(Ahead(d, i)) <= Cardinality(Ahead(b, k)) /\ Cardinality(Ahead(d, i)) \in Nat
          /\ Cardinality(Reruns(d)) <= Cardinality(Reruns(b)) /\ Cardinality(Reruns(d)) \in Nat
      BY <1>6, <1>9, <3>1, <3>2, FS_Subset, CountsAreFinite
    <3> QED BY <1>3, <1>9, <1>10, <3>3
  <2> QED BY <2>1, <2>2
<1>13. WalkIsCounted(d)
  <2>1. CountedTo(d, i)
    BY <1>3, <1>10, <1>11, <1>12 DEF CountedTo
  <2>2. ~d.released /\ d.cursor = i /\ i # 0
    BY <1>1, <1>2, <1>3
  <2> QED BY <2>1, <2>2 DEF WalkIsCounted
<1>14. ListRight(d)
  BY <1>6, <1>7, <1>13 DEF ListRight
<1> QED BY <1>14 DEF d

(* A removal at or before the running system lets the walk pass over one.  *)
LEMMA RemovalCounts ==
  ASSUME NEW b, ListRight(b), NEW i \in 1 .. Len(b.systems)
  PROVE  ListRight(List!Removed(b, i))
<1> DEFINE s == b.systems[i]
           d == List!Removed(b, i)
           r == RemoveAt(b.systems, i)
           k == b.cursor
<1>1. /\ DOMAIN d = ListFields /\ d.systems = r /\ d.atStart = b.atStart \ {s}
      /\ d.removedBefore = IF i <= k THEN b.removedBefore + 1 ELSE b.removedBefore
      /\ \A f \in ListFields \ {"systems", "atStart", "removedBefore"} : d[f] = b[f]
  BY DEF List!Removed, RemoveAt, ListRight, ListShape, ListFields
<1>2. /\ r \in Seq(ListSystems) /\ IsInjective(r) /\ ToSet(r) = ToSet(b.systems) \ {s}
      /\ Early(b.systems, k) \ {s} \subseteq Early(r, k)
      /\ i > k => Early(r, k) \subseteq Early(b.systems, k)
      /\ \E y : Early(r, k) \subseteq Early(b.systems, k) \cup {y}
  BY RemoveAtKeepsInjective, EarlyAfterRemoval DEF ListRight, ListShape
<1> HIDE DEF d, s, r
<1>3. /\ d.cursor = k /\ d.ran = b.ran /\ d.tasks = b.tasks /\ d.started = b.started
      /\ d.released = b.released /\ d.addedBefore = b.addedBefore
  BY <1>1 DEF ListFields
<1>4. /\ i \in Nat /\ k \in Nat /\ b.removedBefore \in Nat /\ b.addedBefore \in Nat
      /\ b.ran \in [ListSystems -> Nat] /\ b.released \in BOOLEAN
      /\ IsFiniteSet(b.atStart) /\ b.atStart \subseteq ListSystems
  BY DEF ListRight, ListShape
<1> HIDE DEF k
<1>5. IsFiniteSet(d.atStart)
  BY <1>1, <1>4, FS_Subset
<1>6. ListShape(d)
  BY <1>1, <1>2, <1>3, <1>4, <1>5 DEF ListShape
<1>7. TasksOnce(d)
  BY <1>3 DEF ListRight, TasksOnce
<1>8. /\ NotRun(d) \subseteq NotRun(b) /\ Reruns(d) \subseteq Reruns(b)
      /\ Ahead(d, k) \subseteq Ahead(b, k)
  BY <1>1, <1>2, <1>3 DEF NotRun, Reruns, Ahead
<1>9. /\ IsFiniteSet(Passed(b, k)) /\ IsFiniteSet(Ahead(b, k)) /\ IsFiniteSet(Reruns(b))
      /\ IsFiniteSet(NotRun(b)) /\ Cardinality(Ahead(b, k)) \in Nat /\ Cardinality(Reruns(b)) \in Nat
      /\ Cardinality(Ahead(d, k)) \in Nat /\ Cardinality(Reruns(d)) \in Nat
      /\ Cardinality(NotRun(b)) \in Nat /\ Cardinality(NotRun(d)) \in Nat
  BY <1>6, CountsAreFinite DEF ListRight
<1>10. /\ Cardinality(Ahead(d, k)) <= Cardinality(Ahead(b, k))
       /\ Cardinality(Reruns(d)) <= Cardinality(Reruns(b))
       /\ Cardinality(NotRun(d)) <= Cardinality(NotRun(b))
  BY <1>8, <1>9, FS_Subset
<1>11. ASSUME k # 0 PROVE ~d.released /\ CountedTo(d, k)
  <2>1. /\ ~b.released /\ b.atStart \subseteq ToSet(b.systems)
        /\ Cardinality(Passed(b, k)) <= b.removedBefore
        /\ Cardinality(Reruns(b)) + Cardinality(Ahead(b, k)) <= b.addedBefore
    BY <1>11 DEF k, ListRight, WalkIsCounted, CountedTo
  <2>2. Cardinality(Passed(d, k)) <= d.removedBefore
    <3>1. CASE i <= k
      <4>1. PICK y : Early(r, k) \subseteq Early(b.systems, k) \cup {y}
        BY <1>2
      <4>2. Passed(d, k) \subseteq Passed(b, k) \cup {y}
        BY <1>1, <1>8, <4>1 DEF Passed
      <4>3. /\ Cardinality(Passed(d, k)) <= Cardinality(Passed(b, k)) + 1
            /\ Cardinality(Passed(d, k)) \in Nat /\ Cardinality(Passed(b, k)) \in Nat
        BY <1>9, <4>2, CountOfSubset, Zenon
      <4> QED BY <1>1, <1>4, <2>1, <3>1, <4>3
    <3>2. CASE ~(i <= k)
      <4>1. Passed(d, k) \subseteq Passed(b, k)
        BY <1>1, <1>2, <1>4, <1>8, <3>2 DEF Passed
      <4>2. /\ Cardinality(Passed(d, k)) <= Cardinality(Passed(b, k))
            /\ Cardinality(Passed(d, k)) \in Nat /\ Cardinality(Passed(b, k)) \in Nat
        BY <1>9, <4>1, FS_Subset, FS_CardinalityType
      <4> QED BY <1>1, <1>4, <2>1, <3>2, <4>2
    <3> QED BY <3>1, <3>2
  <2>3. Cardinality(Reruns(d)) + Cardinality(Ahead(d, k)) <= d.addedBefore
    BY <1>3, <1>4, <1>9, <1>10, <2>1
  <2>4. d.atStart \subseteq ToSet(d.systems)
    BY <1>1, <1>2, <2>1
  <2> QED BY <1>3, <2>1, <2>2, <2>3, <2>4 DEF CountedTo
<1>12. ASSUME k = 0, d.released
       PROVE  Cardinality(NotRun(d)) <= d.removedBefore /\ Cardinality(Reruns(d)) <= d.addedBefore
  <2>1. /\ Cardinality(NotRun(b)) <= b.removedBefore /\ Cardinality(Reruns(b)) <= b.addedBefore
    BY <1>3, <1>12 DEF k, ListRight, WalkIsCounted
  <2>2. d.removedBefore = b.removedBefore
    <3>1. ~(i <= k)
      BY <1>12
    <3> QED BY <1>1, <3>1
  <2> QED BY <1>3, <1>4, <1>9, <1>10, <2>1, <2>2
<1>13. WalkIsCounted(d)
  BY <1>3, <1>11, <1>12 DEF WalkIsCounted
<1>14. ListRight(d)
  BY <1>6, <1>7, <1>13 DEF ListRight
<1> QED BY <1>14 DEF d

(* An addition there makes one run again.                                  *)
LEMMA AdditionCounts ==
  ASSUME NEW b, ListRight(b), NEW s \in ListSystems, s \notin ToSet(b.systems)
  PROVE  ListRight(List!Added(b, s))
<1> DEFINE p == List!Place(b.systems, s)
           d == List!Added(b, s)
           r == InsertAt(b.systems, p, s)
           k == b.cursor
<1>1. /\ DOMAIN d = ListFields /\ d.systems = r
      /\ d.addedBefore = IF p <= k THEN b.addedBefore + 1 ELSE b.addedBefore
      /\ \A f \in ListFields \ {"systems", "addedBefore"} : d[f] = b[f]
  BY DEF List!Added, List!Inserted, InsertAt, ListRight, ListShape, ListFields
<1>2. p \in 1 .. Len(b.systems) + 1
  <2> DEFINE before == {i \in DOMAIN b.systems : Priority[b.systems[i]] >= Priority[s]}
  <2>1. p = 1 + Cardinality(before)
    BY ListOperators DEF List!Place
  <2>2. before \subseteq 1 .. Len(b.systems) /\ Len(b.systems) \in Nat
    BY DEF ListRight, ListShape
  <2> HIDE DEF before
  <2>3. IsFiniteSet(1 .. Len(b.systems)) /\ Cardinality(1 .. Len(b.systems)) = Len(b.systems)
    <3>1. 1 \in Int /\ Len(b.systems) \in Int
      BY <2>2
    <3>2. /\ IsFiniteSet(1 .. Len(b.systems))
          /\ Cardinality(1 .. Len(b.systems)) =
               IF 1 > Len(b.systems) THEN 0 ELSE Len(b.systems) - 1 + 1
      BY <3>1, FS_Interval
    <3> QED BY <2>2, <3>2
  <2>4. Cardinality(before) \in Nat /\ Cardinality(before) <= Len(b.systems)
    BY <2>2, <2>3, FS_Subset, FS_CardinalityType
  <2> HIDE DEF p
  <2> QED BY <2>1, <2>2, <2>4
<1> HIDE DEF p
<1>3. /\ r \in Seq(ListSystems) /\ IsInjective(r) /\ ToSet(r) = ToSet(b.systems) \cup {s}
      /\ Early(r, k) \subseteq Early(b.systems, k) \cup {s}
      /\ p > k => Early(b.systems, k) \subseteq Early(r, k)
      /\ \E y : Early(b.systems, k) \ {y} \subseteq Early(r, k)
  <2>1. /\ b.systems \in Seq(ListSystems) /\ IsInjective(b.systems) /\ k \in Nat
    BY DEF ListRight, ListShape
  <2>2. /\ r \in Seq(ListSystems) /\ IsInjective(r) /\ ToSet(r) = ToSet(b.systems) \cup {s}
    BY <1>2, <2>1, InsertAtKeepsInjective
  <2>3. /\ Early(r, k) \subseteq Early(b.systems, k) \cup {s}
        /\ p > k => Early(b.systems, k) \subseteq Early(r, k)
        /\ \E y : Early(b.systems, k) \ {y} \subseteq Early(r, k)
    BY <1>2, <2>1, EarlyAfterInsertion
  <2> QED BY <2>2, <2>3, Zenon
<1> HIDE DEF d, r
<1>4. /\ d.cursor = k /\ d.ran = b.ran /\ d.tasks = b.tasks /\ d.started = b.started
      /\ d.released = b.released /\ d.removedBefore = b.removedBefore /\ d.atStart = b.atStart
  BY <1>1 DEF ListFields
<1>5. /\ p \in Nat /\ k \in Nat /\ b.removedBefore \in Nat /\ b.addedBefore \in Nat /\ p # 0
      /\ b.ran \in [ListSystems -> Nat] /\ b.released \in BOOLEAN
      /\ IsFiniteSet(b.atStart) /\ b.atStart \subseteq ListSystems
  BY <1>2 DEF ListRight, ListShape
<1> HIDE DEF k
<1>6. ListShape(d)
  BY <1>1, <1>3, <1>4, <1>5 DEF ListShape
<1>7. TasksOnce(d)
  BY <1>4 DEF ListRight, TasksOnce
<1>8. NotRun(d) = NotRun(b) /\ Reruns(d) = Reruns(b)
  BY <1>4 DEF NotRun, Reruns
<1>9. /\ IsFiniteSet(Passed(b, k)) /\ IsFiniteSet(Ahead(b, k)) /\ IsFiniteSet(Reruns(b))
      /\ Cardinality(Ahead(b, k)) \in Nat /\ Cardinality(Reruns(b)) \in Nat
      /\ Cardinality(Ahead(d, k)) \in Nat
  BY <1>6, CountsAreFinite DEF ListRight
<1>10. ASSUME k # 0 PROVE ~d.released /\ CountedTo(d, k)
  <2>1. /\ ~b.released /\ b.atStart \subseteq ToSet(b.systems)
        /\ Cardinality(Passed(b, k)) <= b.removedBefore
        /\ Cardinality(Reruns(b)) + Cardinality(Ahead(b, k)) <= b.addedBefore
    BY <1>10 DEF k, ListRight, WalkIsCounted, CountedTo
  <2>2. Cardinality(Passed(d, k)) <= d.removedBefore
    <3>1. s \notin b.atStart
      BY <2>1
    <3>2. Passed(d, k) \subseteq Passed(b, k)
      BY <1>1, <1>3, <1>8, <3>1 DEF Passed, NotRun
    <3>3. /\ Cardinality(Passed(d, k)) <= Cardinality(Passed(b, k))
          /\ Cardinality(Passed(d, k)) \in Nat /\ Cardinality(Passed(b, k)) \in Nat
      BY <1>9, <3>2, FS_Subset, FS_CardinalityType
    <3> QED BY <1>4, <1>5, <2>1, <3>3
  <2>3. Cardinality(Reruns(d)) + Cardinality(Ahead(d, k)) <= d.addedBefore
    <3>1. CASE p <= k
      <4>1. PICK y : Early(b.systems, k) \ {y} \subseteq Early(r, k)
        BY <1>3
      <4>2. Ahead(d, k) \subseteq Ahead(b, k) \cup {y}
        BY <1>1, <1>4, <4>1 DEF Ahead
      <4>3. Cardinality(Ahead(d, k)) <= Cardinality(Ahead(b, k)) + 1
        BY <1>9, <4>2, CountOfSubset, Zenon
      <4> QED BY <1>1, <1>5, <1>8, <1>9, <2>1, <3>1, <4>3
    <3>2. CASE ~(p <= k)
      <4>1. Ahead(d, k) \subseteq Ahead(b, k)
        BY <1>1, <1>3, <1>4, <1>5, <3>2 DEF Ahead
      <4>2. Cardinality(Ahead(d, k)) <= Cardinality(Ahead(b, k))
        BY <1>9, <4>1, FS_Subset
      <4> QED BY <1>1, <1>5, <1>8, <1>9, <2>1, <3>2, <4>2
    <3> QED BY <3>1, <3>2
  <2>4. d.atStart \subseteq ToSet(d.systems)
    BY <1>1, <1>3, <1>4, <2>1
  <2> QED BY <1>4, <2>1, <2>2, <2>3, <2>4 DEF CountedTo
<1>11. ASSUME k = 0, d.released
       PROVE  Cardinality(NotRun(d)) <= d.removedBefore /\ Cardinality(Reruns(d)) <= d.addedBefore
  <2>1. /\ Cardinality(NotRun(b)) <= b.removedBefore /\ Cardinality(Reruns(b)) <= b.addedBefore
    BY <1>4, <1>11 DEF k, ListRight, WalkIsCounted
  <2>2. d.addedBefore = b.addedBefore
    <3>1. ~(p <= k)
      BY <1>5, <1>11
    <3> QED BY <1>1, <3>1
  <2> QED BY <1>4, <1>8, <2>1, <2>2
<1>12. WalkIsCounted(d)
  BY <1>4, <1>10, <1>11 DEF WalkIsCounted
<1>13. ListRight(d)
  BY <1>6, <1>7, <1>12 DEF ListRight
<1> QED BY <1>13 DEF d

(* What is not of the list of systems.                                     *)
LEMMA ListKeepsOthers ==
  ASSUME NEW b, ListRight(b), NEW d, DOMAIN d = ListFields,
         \A f \in ListFields \ {"calls", "pending", "tasks"} : d[f] = b[f], TasksOnce(d)
  PROVE  ListRight(d)
<1>1. /\ d.systems = b.systems /\ d.atStart = b.atStart /\ d.released = b.released
      /\ d.removedBefore = b.removedBefore /\ d.addedBefore = b.addedBefore
      /\ d.cursor = b.cursor /\ d.ran = b.ran
  BY DEF ListFields
<1>2. ListShape(d)
  BY <1>1 DEF ListRight, ListShape
<1>3. NotRun(d) = NotRun(b) /\ Reruns(d) = Reruns(b)
  BY <1>1 DEF NotRun, Reruns
<1>4. \A k : Passed(d, k) = Passed(b, k) /\ Ahead(d, k) = Ahead(b, k)
  BY <1>1, <1>3 DEF Passed, Ahead
<1>5. WalkIsCounted(d)
  BY <1>1, <1>3, <1>4 DEF ListRight, WalkIsCounted, CountedTo
<1> QED BY <1>2, <1>5 DEF ListRight

LEMMA CallKeepsList ==
  ASSUME NEW l, ListRight(l), List!Call(l)
  PROVE  ListRight(state')
<1>1. state' = [l EXCEPT !.calls = @ + 1]
  BY DEF List!Call
<1>2. /\ DOMAIN state' = ListFields /\ \A f \in ListFields \ {"calls"} : state'[f] = l[f]
  BY <1>1 DEF ListRight, ListShape, ListFields
<1>3. TasksOnce(l) /\ state'.tasks = l.tasks /\ state'.started = l.started
  BY <1>2 DEF ListRight, ListFields
<1>4. TasksOnce(state')
  BY <1>3 DEF TasksOnce
<1>5. \A f \in ListFields \ {"calls", "pending", "tasks"} : state'[f] = l[f]
  BY <1>2
<1> QED BY <1>2, <1>4, <1>5, ListKeepsOthers, Zenon

(* A tick starts with nobody run.                                          *)
LEMMA TickStartCounts ==
  ASSUME NEW b, ListRight(b), b.systems # <<>>,
         NEW c, c = [b EXCEPT !.ran = [s \in ListSystems |-> 0], !.released = FALSE,
                              !.atStart = ToSet(b.systems), !.removedBefore = 0, !.addedBefore = 0]
  PROVE  ListRight(List!RunAt(c, 1))
<1> DEFINE none == [s \in ListSystems |-> 0]
<1>1. /\ DOMAIN c = ListFields /\ c.ran = none /\ c.released = FALSE
      /\ c.atStart = ToSet(b.systems) /\ c.removedBefore = 0 /\ c.addedBefore = 0
      /\ \A f \in ListFields \ {"ran", "released", "atStart", "removedBefore", "addedBefore"} :
           c[f] = b[f]
  BY DEF ListRight, ListShape, ListFields
<1>2. /\ c.systems = b.systems /\ c.cursor = b.cursor /\ c.tasks = b.tasks /\ c.started = b.started
  BY <1>1 DEF ListFields
<1>3. none \in [ListSystems -> Nat] /\ \A s \in ListSystems : none[s] = 0
  OBVIOUS
<1> HIDE DEF none
<1>4. /\ b.systems \in Seq(ListSystems) /\ IsInjective(b.systems) /\ b.cursor \in Nat
      /\ ToSet(b.systems) \subseteq ListSystems /\ IsFiniteSet(ToSet(b.systems))
      /\ Len(b.systems) \in Nat /\ 1 \in 1 .. Len(b.systems) /\ DOMAIN b.systems = 1 .. Len(b.systems)
  <2>1. b.systems \in Seq(ListSystems) /\ IsInjective(b.systems) /\ b.cursor \in Nat
    BY DEF ListRight, ListShape
  <2>2. IsFiniteSet(ToSet(b.systems))
    BY <2>1, CardinalityOfInjective
  <2> QED BY <2>1, <2>2 DEF ToSet
<1>5. ListShape(c)
  BY <1>1, <1>2, <1>3, <1>4 DEF ListShape
<1>6. TasksOnce(c)
  BY <1>2 DEF ListRight, TasksOnce
<1>7. CountedTo(c, 0)
  <2>1. \A s \in c.atStart : c.ran[s] = 0
    BY <1>1, <1>3, <1>4
  <2>2. Early(c.systems, 0) = {}
    BY <1>2, <1>4 DEF Early
  <2>3. Passed(c, 0) = {} /\ Ahead(c, 0) = {}
    BY <2>1, <2>2 DEF Passed, Ahead
  <2>4. Reruns(c) = {}
    <3>1. \A s \in c.atStart : {s} \X (2 .. c.ran[s]) = {}
      <4>1. 2 .. 0 = {}
        OBVIOUS
      <4> QED BY <2>1, <4>1
    <3> QED BY <3>1 DEF Reruns
  <2>5. Cardinality({}) = 0
    BY FS_EmptySet
  <2>6. /\ Cardinality(Passed(c, 0)) = 0 /\ Cardinality(Reruns(c)) = 0
        /\ Cardinality(Ahead(c, 0)) = 0
    BY <2>3, <2>4, <2>5, Zenon
  <2> QED BY <1>1, <1>2, <2>6 DEF CountedTo
<1>8. CountedTo(c, 1 - 1) /\ 1 \in 1 .. Len(c.systems) /\ ~c.released
  BY <1>1, <1>2, <1>4, <1>7
<1> QED BY <1>5, <1>6, <1>8, RunCounts

(* It ends when the walk has come to the end, or a system throws.          *)
LEMMA TickEndCounts ==
  ASSUME NEW b, ListRight(b), b.cursor # 0, NEW end \in BOOLEAN, end => b.cursor >= Len(b.systems),
         NEW d, DOMAIN d = ListFields, d.cursor = 0, d.released = end,
         \A f \in ListFields \ {"cursor", "released", "pending", "calls"} : d[f] = b[f]
  PROVE  ListRight(d)
<1>1. /\ d.systems = b.systems /\ d.atStart = b.atStart /\ d.tasks = b.tasks
      /\ d.removedBefore = b.removedBefore /\ d.addedBefore = b.addedBefore
      /\ d.started = b.started /\ d.ran = b.ran
  BY DEF ListFields
<1>2. ListShape(d)
  BY <1>1 DEF ListRight, ListShape
<1>3. TasksOnce(d)
  BY <1>1 DEF ListRight, TasksOnce
<1>4. NotRun(d) = NotRun(b) /\ Reruns(d) = Reruns(b)
  BY <1>1 DEF NotRun, Reruns
<1>5. ASSUME end
      PROVE  Cardinality(NotRun(b)) <= b.removedBefore /\ Cardinality(Reruns(b)) <= b.addedBefore
  <2>1. CountedTo(b, b.cursor)
    BY DEF ListRight, WalkIsCounted
  <2>2. b.systems \in Seq(ListSystems) /\ b.cursor \in Nat /\ b.addedBefore \in Nat
    BY DEF ListRight, ListShape
  <2>3. Early(b.systems, b.cursor) = ToSet(b.systems)
    <3>1. \A j \in DOMAIN b.systems : j <= b.cursor
      BY <1>5, <2>2
    <3> QED BY <3>1 DEF Early, ToSet
  <2>4. Passed(b, b.cursor) = NotRun(b)
    BY <2>1, <2>3 DEF CountedTo, Passed, NotRun
  <2>5. Cardinality(Reruns(b)) \in Nat /\ Cardinality(Ahead(b, b.cursor)) \in Nat
    BY CountsAreFinite DEF ListRight
  <2> QED BY <2>1, <2>2, <2>4, <2>5 DEF CountedTo
<1>6. WalkIsCounted(d)
  BY <1>1, <1>4, <1>5 DEF WalkIsCounted
<1> QED BY <1>2, <1>3, <1>6 DEF ListRight

-----------------------------------------------------------------------------
(* The list starts with the system of the tasks.                           *)
LEMMA ListStarts ==
  List!Init => ListInv
<1> SUFFICES ASSUME List!Init PROVE ListInv
  OBVIOUS
<1>1. /\ DOMAIN state = ListFields /\ state.systems = <<TaskSystem>> /\ state.cursor = 0
      /\ state.tasks = <<>> /\ state.released = FALSE /\ state.atStart = {}
      /\ state.ran = [s \in ListSystems |-> 0] /\ state.started = [t \in Tasks |-> 0]
      /\ state.removedBefore = 0 /\ state.addedBefore = 0
  BY DEF List!Init, List!ListInit, ListFields
<1>2. TaskSystem \in ListSystems
  BY CoreAssumption DEF CoreAssumption, List!ListAssumption
<1>3. <<TaskSystem>> \in Seq(ListSystems) /\ IsInjective(<<TaskSystem>>)
  BY <1>2 DEF IsInjective
<1>4. /\ <<>> \in Seq(Tasks) /\ ToSet(<<>>) = {} /\ IsFiniteSet({})
      /\ [s \in ListSystems |-> 0] \in [ListSystems -> Nat]
      /\ [t \in Tasks |-> 0] \in [Tasks -> {0, 1}]
  BY FS_EmptySet DEF ToSet
<1>5. ListShape(state)
  <2>1. state.atStart \subseteq ListSystems /\ state.released \in BOOLEAN /\ 0 \in Nat
    BY <1>1
  <2> QED BY <1>1, <1>3, <1>4, <2>1, Zenon DEF ListShape
<1>6. TasksOnce(state)
  BY <1>1, <1>4 DEF TasksOnce
<1>7. WalkIsCounted(state)
  BY <1>1 DEF WalkIsCounted
<1> QED BY <1>5, <1>6, <1>7 DEF ListInv, ListRight

(* Every step of the list keeps the invariant.                             *)
LEMMA ListStep ==
  ASSUME ListInv, List!Next PROVE ListInv'
<1>0. ListRight(state)
  BY DEF ListInv
<1>1. SUFFICES ListRight(state')
  BY DEF ListInv, ListRight, ListShape, TasksOnce, WalkIsCounted, CountedTo, NotRun, Reruns,
         Passed, Ahead
<1>2. ASSUME List!TickStart PROVE ListRight(state')
  <2> DEFINE c == [state EXCEPT !.ran = [s \in ListSystems |-> 0], !.released = FALSE,
                                !.atStart = ToSet(state.systems),
                                !.removedBefore = 0, !.addedBefore = 0]
  <2>1. state.systems # <<>> /\ state' = List!RunAt(c, 1)
    BY <1>2, ListOperators, Zenon DEF List!TickStart
  <2>2. ListRight(List!RunAt(c, 1))
    BY <1>0, <2>1, TickStartCounts
  <2> QED BY <2>1, <2>2, Zenon
<1>3. ASSUME List!TickStep PROVE ListRight(state')
  <2> DEFINE i == state.cursor + 1
  <2>1. /\ state' = List!RunAt(state, i) /\ state.cursor # 0 /\ state.cursor < Len(state.systems)
    BY <1>3 DEF List!TickStep, List!Running
  <2>2. /\ i \in 1 .. Len(state.systems) /\ i - 1 = state.cursor
    BY <1>0, <2>1 DEF ListRight, ListShape
  <2>3. ~state.released /\ CountedTo(state, i - 1)
    BY <1>0, <2>1, <2>2 DEF ListRight, WalkIsCounted
  <2> HIDE DEF i
  <2>4. ListRight(List!RunAt(state, i))
    BY <1>0, <2>2, <2>3, RunCounts DEF ListRight
  <2> QED BY <2>1, <2>4, Zenon
<1>4. ASSUME List!TickEnd PROVE ListRight(state')
  <2>1. /\ state' = [state EXCEPT !.cursor = 0, !.pending = FALSE, !.released = TRUE]
        /\ state.cursor # 0 /\ state.cursor >= Len(state.systems)
    BY <1>4 DEF List!TickEnd, List!Running
  <2>2. /\ DOMAIN state' = ListFields /\ state'.cursor = 0 /\ state'.released = TRUE
        /\ \A f \in ListFields \ {"cursor", "released", "pending", "calls"} : state'[f] = state[f]
    BY <1>0, <2>1 DEF ListRight, ListShape, ListFields
  <2> QED BY <1>0, <2>1, <2>2, TickEndCounts
<1>5. ASSUME List!Throw PROVE ListRight(state')
  <2> DEFINE c == [state EXCEPT !.cursor = 0]
  <2>1. state.cursor # 0 /\ List!Call(c)
    BY <1>5 DEF List!Throw, List!Running
  <2>2. state.released = FALSE
    BY <1>0, <2>1 DEF ListRight, ListShape, WalkIsCounted
  <2>3. /\ DOMAIN c = ListFields /\ c.cursor = 0 /\ c.released = FALSE
        /\ \A f \in ListFields \ {"cursor", "released", "pending", "calls"} : c[f] = state[f]
    BY <1>0, <2>2 DEF ListRight, ListShape, ListFields
  <2>4. ListRight(c)
    <3> HIDE DEF c
    <3> QED BY <1>0, <2>1, <2>3, TickEndCounts
  <2> HIDE DEF c
  <2> QED BY <2>1, <2>4, CallKeepsList
<1>6. ASSUME List!removeEntity PROVE ListRight(state')
  <2> DEFINE c == [state EXCEPT !.pending = TRUE]
  <2>1. List!Call(c)
    BY <1>6 DEF List!removeEntity
  <2>2. /\ DOMAIN c = ListFields
        /\ \A f \in ListFields \ {"calls", "pending", "tasks"} : c[f] = state[f]
        /\ c.tasks = state.tasks /\ c.started = state.started
    BY <1>0 DEF ListRight, ListShape, ListFields
  <2> HIDE DEF c
  <2>3. TasksOnce(c)
    BY <1>0, <2>2 DEF ListRight, TasksOnce
  <2>4. ListRight(c)
    BY <1>0, <2>2, <2>3, ListKeepsOthers
  <2> QED BY <2>1, <2>4, CallKeepsList
<1>7. ASSUME NEW t \in Tasks, List!executeTask(t) PROVE ListRight(state')
  <2> DEFINE q == Append(state.tasks, t)
             c == [state EXCEPT !.tasks = q]
  <2>1. List!Call(c) /\ state.started[t] = 0
    BY <1>7 DEF List!executeTask
  <2>2. /\ DOMAIN c = ListFields /\ c.tasks = q /\ c.started = state.started
        /\ \A f \in ListFields \ {"calls", "pending", "tasks"} : c[f] = state[f]
    BY <1>0 DEF ListRight, ListShape, ListFields
  <2>3. q \in Seq(Tasks) /\ ToSet(q) = ToSet(state.tasks) \cup {t}
    <3>1. state.tasks \in Seq(Tasks)
      BY <1>0 DEF ListRight, TasksOnce
    <3>2. q \in Seq(Tasks) /\ Range(q) = Range(state.tasks) \cup {t}
      BY <3>1, RangeOfAppend
    <3> HIDE DEF q
    <3>3. \A s : ToSet(s) = Range(s)
      BY DEF ToSet, Range
    <3> QED BY <3>2, <3>3
  <2> HIDE DEF c, q
  <2>4. TasksOnce(c)
    BY <1>0, <2>1, <2>2, <2>3 DEF ListRight, TasksOnce
  <2>5. ListRight(c)
    BY <1>0, <2>2, <2>4, ListKeepsOthers
  <2> QED BY <2>1, <2>5, CallKeepsList
<1>8. ASSUME NEW s \in ListSystems, List!addSystem(s) PROVE ListRight(state')
  <2>1. s \notin ToSet(state.systems) /\ List!Call(List!Added(state, s))
    BY <1>8, ListOperators DEF List!addSystem
  <2>2. ListRight(List!Added(state, s))
    BY <1>0, <2>1, AdditionCounts
  <2> QED BY <2>1, <2>2, CallKeepsList
<1>9. ASSUME NEW i \in DOMAIN state.systems, List!removeSystem(i) PROVE ListRight(state')
  <2>1. i \in 1 .. Len(state.systems) /\ List!Call(List!Removed(state, i))
    BY <1>0, <1>9 DEF List!removeSystem, ListRight, ListShape
  <2>2. ListRight(List!Removed(state, i))
    BY <1>0, <2>1, RemovalCounts
  <2> QED BY <2>1, <2>2, CallKeepsList
<1> QED BY <1>2, <1>3, <1>4, <1>5, <1>6, <1>7, <1>8, <1>9 DEF List!Next

(* So tasks start once, and a tick skips systems only behind a removal.    *)
LEMMA ListIsWalkedOnce ==
  ListInv => List!HeardAtMostOnce /\ List!SkipsOnlyByRemoval
<1> SUFFICES ASSUME ListRight(state) PROVE List!HeardAtMostOnce /\ List!SkipsOnlyByRemoval
  BY DEF ListInv
<1>1. List!HeardAtMostOnce
  BY DEF List!HeardAtMostOnce, ListRight, TasksOnce
<1>2. state.released /\ state.cursor = 0 =>
        Cardinality(NotRun(state)) <= state.removedBefore
        /\ Cardinality(Reruns(state)) <= state.addedBefore
  BY DEF ListRight, WalkIsCounted
<1>3. List!SkipsOnlyByRemoval
  BY <1>2, ListOperators, Zenon DEF List!SkipsOnlyByRemoval, List!Running, NotRun, Reruns
<1> QED BY <1>1, <1>3

-----------------------------------------------------------------------------
(* Pointer events.                                                         *)
AnyCommand == [entity : PointerEntities, button : Buttons, state : PointerStates,
               timestamp : Nat, serial : Nat]

DigestFields ==
  {"row", "previousFrameMax", "currentFrameMax", "buttonState", "thisFrameCommands",
   "clock", "serial", "frame", "frameTo"}

(* What digesting a row writes.                                            *)
RowDigests == {"currentFrameMax", "buttonState", "thisFrameCommands"}

(* A row is in the order of its timestamps, none of them later than now.   *)
RowIsRight(row, now_) ==
  /\ row \in Seq(AnyCommand)
  /\ \A i \in DOMAIN row : row[i].timestamp <= now_
  /\ \A i, j \in DOMAIN row :
       i < j => row[i].timestamp <= row[j].timestamp /\ row[i].serial < row[j].serial

ButtonsRight(s) ==
  /\ DOMAIN s.buttonState = Buttons
  /\ \A b \in Buttons : s.buttonState[b].timestamp \in Nat

(* One row: what is seen is of the frame, and the state of a button is the *)
(* press seen, which is newer, or stays.                                   *)
LEMMA RowIsDigested ==
  ASSUME NEW s, DOMAIN s = DigestFields, ButtonsRight(s), NEW now_ \in Nat,
         s.currentFrameMax \in Nat, s.currentFrameMax <= now_, NEW row, RowIsRight(row, now_),
         NEW v, v = Pointers!DigestRow(s, row)
  PROVE  /\ DOMAIN v = DigestFields
         /\ \A f \in DigestFields \ RowDigests : v[f] = s[f]
         /\ v.currentFrameMax \in Nat /\ s.currentFrameMax <= v.currentFrameMax
         /\ v.currentFrameMax <= now_
         /\ s.thisFrameCommands \subseteq v.thisFrameCommands
         /\ \A i \in Pointers!Seen(s, row) :
              row[i].timestamp > s.previousFrameMax => row[i] \in v.thisFrameCommands
         /\ ButtonsRight(v)
         /\ \A b \in Buttons : /\ v.buttonState[b].timestamp >= s.buttonState[b].timestamp
                               /\ \/ v.buttonState[b] = s.buttonState[b]
                                  \/ v.buttonState[b] \in Pointers!Pressed(s, row)
                                     /\ v.buttonState[b].button = b
         /\ \A c \in Pointers!Pressed(s, row) : v.buttonState[c.button] = c
<1> DEFINE seen == {row[i] : i \in Pointers!Seen(s, row)}
           pressed == Pointers!Pressed(s, row)
           times == {s.currentFrameMax} \cup {c.timestamp : c \in seen}
<1>1. v = [s EXCEPT
         !.currentFrameMax = Pointers!Max(times),
         !.thisFrameCommands = @ \cup {c \in seen : c.timestamp > s.previousFrameMax},
         !.buttonState = [b \in Buttons |->
            IF \E c \in pressed : c.button = b
            THEN CHOOSE c \in pressed : c.button = b ELSE @[b]]]
  BY DEF Pointers!DigestRow
<1>2. seen \subseteq AnyCommand /\ \A c \in seen : c.timestamp \in Nat /\ c.timestamp <= now_
  <2>1. \A i \in Pointers!Seen(s, row) : i \in DOMAIN row /\ row[i] \in AnyCommand
    BY DEF Pointers!Seen, RowIsRight
  <2>2. \A c \in AnyCommand : c.timestamp \in Nat
    BY DEF AnyCommand
  <2> QED BY <2>1, <2>2 DEF RowIsRight
<1>3. Pointers!Max(times) \in times /\ \A x \in times : Pointers!Max(times) >= x
  <2>1. times \in SUBSET Int /\ now_ \in Int /\ times # {} /\ \A x \in times : x <= now_
    BY <1>2
  <2>2. Pointers!Max(times) = Max(times)
    BY Zenon DEF Pointers!Max, Max
  <2> HIDE DEF times
  <2> QED BY <2>1, <2>2, MaxIsGreatest
<1>4. ASSUME NEW c \in pressed
      PROVE  /\ c \in AnyCommand /\ c.timestamp > s.buttonState[c.button].timestamp
             /\ c.button \in Buttons
             /\ \A d \in pressed : d.button = c.button => d = c
  <2>1. PICK i \in Pointers!Seen(s, row) :
          c = row[i] /\ Pointers!IsPress(row[i]) /\ ~Pointers!EndsWalk(s, row, i)
    BY DEF Pointers!Pressed
  <2>2. /\ i \in DOMAIN row /\ row[i] \in AnyCommand
        /\ ~(row[i].timestamp <= s.buttonState[row[i].button].timestamp)
        /\ \A j \in i + 1 .. Len(row) : ~(Pointers!IsPress(row[j]) /\ row[j].button = row[i].button)
    BY <2>1 DEF Pointers!EndsWalk, Pointers!Seen, RowIsRight
  <2>3. c.timestamp > s.buttonState[c.button].timestamp /\ c.button \in Buttons
    BY <2>1, <2>2 DEF ButtonsRight, AnyCommand
  <2>4. ASSUME NEW d \in pressed, d.button = c.button PROVE d = c
    <3>1. PICK k \in Pointers!Seen(s, row) :
            d = row[k] /\ Pointers!IsPress(row[k]) /\ ~Pointers!EndsWalk(s, row, k)
      BY DEF Pointers!Pressed
    <3>2. /\ k \in DOMAIN row
          /\ \A j \in k + 1 .. Len(row) : ~(Pointers!IsPress(row[j]) /\ row[j].button = row[k].button)
      BY <3>1 DEF Pointers!EndsWalk, Pointers!Seen
    <3>3. i \in 1 .. Len(row) /\ k \in 1 .. Len(row) /\ Len(row) \in Nat
      BY <2>2, <3>2 DEF RowIsRight
    <3>4. ~(i < k)
      BY <2>1, <2>2, <2>4, <3>1, <3>3
    <3>5. ~(k < i)
      BY <2>1, <2>4, <3>1, <3>2, <3>3
    <3>6. i = k
      BY <3>3, <3>4, <3>5
    <3> QED BY <2>1, <3>1, <3>6
  <2> QED BY <2>1, <2>2, <2>3, <2>4
<1>5. ASSUME NEW c \in pressed PROVE (CHOOSE d \in pressed : d.button = c.button) = c
  BY <1>4
<1>6. /\ DOMAIN v = DigestFields
      /\ v.currentFrameMax = Pointers!Max(times)
      /\ v.thisFrameCommands = s.thisFrameCommands \cup {c \in seen : c.timestamp > s.previousFrameMax}
      /\ v.buttonState = [b \in Buttons |->
            IF \E c \in pressed : c.button = b
            THEN CHOOSE c \in pressed : c.button = b ELSE s.buttonState[b]]
      /\ \A f \in DigestFields \ RowDigests : v[f] = s[f]
  <2> HIDE DEF seen, pressed, times
  <2> QED BY <1>1 DEF DigestFields, RowDigests
<1>7. \A c \in pressed : v.buttonState[c.button] = c
  BY <1>4, <1>5, <1>6
<1>8. ASSUME NEW b \in Buttons
      PROVE  \/ v.buttonState[b] = s.buttonState[b]
             \/ v.buttonState[b] \in pressed /\ v.buttonState[b].button = b
  <2>1. CASE \E c \in pressed : c.button = b
    BY <1>7, <2>1
  <2>2. CASE ~\E c \in pressed : c.button = b
    BY <1>6, <2>2
  <2> QED BY <2>1, <2>2
<1>9. ASSUME NEW b \in Buttons
      PROVE  v.buttonState[b].timestamp \in Nat
             /\ v.buttonState[b].timestamp >= s.buttonState[b].timestamp
  <2>1. s.buttonState[b].timestamp \in Nat
    BY DEF ButtonsRight
  <2>2. CASE v.buttonState[b] = s.buttonState[b]
    BY <2>1, <2>2
  <2>3. CASE v.buttonState[b] \in pressed /\ v.buttonState[b].button = b
    <3> DEFINE c == v.buttonState[b]
    <3>1. c \in AnyCommand /\ c.timestamp > s.buttonState[b].timestamp
      BY <1>4, <2>3
    <3>2. c.timestamp \in Nat
      BY <3>1 DEF AnyCommand
    <3> QED BY <2>1, <3>1, <3>2
  <2> QED BY <1>8, <2>2, <2>3
<1>10. ButtonsRight(v)
  BY <1>6, <1>9 DEF ButtonsRight
<1>11. v.currentFrameMax \in Nat /\ s.currentFrameMax <= v.currentFrameMax /\ v.currentFrameMax <= now_
  BY <1>2, <1>3, <1>6
<1>12. \A i \in Pointers!Seen(s, row) :
         row[i].timestamp > s.previousFrameMax => row[i] \in v.thisFrameCommands
  BY <1>6
<1> HIDE DEF pressed, seen, times
<1>13. s.thisFrameCommands \subseteq v.thisFrameCommands
  BY <1>6
<1> QED BY <1>6, <1>7, <1>8, <1>9, <1>10, <1>11, <1>12, <1>13 DEF pressed

Behind(c, new) ==
  \E d1, d2 \in new :
    /\ d1 # d2 /\ d1.button = d2.button /\ Pointers!IsPress(d1) /\ Pointers!IsPress(d2)
    /\ d1.timestamp >= c.timestamp /\ d2.timestamp >= c.timestamp

(* A command that the queries without an entity see.                       *)
Noticed(v, c) ==
  /\ c \in v.thisFrameCommands
  /\ Pointers!IsPress(c) => v.buttonState[c.button].timestamp >= c.timestamp

(* A command of a row, newer than from: if the walk ends before it, or its *)
(* button has a newer state, there are two presses.                        *)
LEMMA RowIsNoticed ==
  ASSUME NEW s, DOMAIN s = DigestFields, ButtonsRight(s), NEW now_ \in Nat,
         s.currentFrameMax \in Nat, s.currentFrameMax <= now_, NEW row, RowIsRight(row, now_),
         NEW v, v = Pointers!DigestRow(s, row),
         NEW from \in Nat, s.previousFrameMax \in Nat, s.previousFrameMax <= from,
         NEW new, \A i \in DOMAIN row : row[i].timestamp > from => row[i] \in new,
         \A b \in Buttons : s.buttonState[b].timestamp > from =>
           /\ s.buttonState[b] \in new /\ Pointers!IsPress(s.buttonState[b])
           /\ s.buttonState[b].button = b
           /\ \A i \in DOMAIN row : row[i] # s.buttonState[b],
         NEW k \in DOMAIN row, row[k].timestamp > from
  PROVE  Noticed(v, row[k]) \/ Behind(row[k], new)
<1>0. /\ Len(row) \in Nat /\ DOMAIN row = 1 .. Len(row)
      /\ \A i \in DOMAIN row : row[i] \in AnyCommand /\ row[i].timestamp \in Nat
                               /\ row[i].button \in Buttons
      /\ \A i, j \in DOMAIN row : i < j => row[i].timestamp <= row[j].timestamp
                                           /\ row[i] # row[j]
  <2>1. row \in Seq(AnyCommand)
    BY DEF RowIsRight
  <2>2. \A c \in AnyCommand : c.timestamp \in Nat /\ c.button \in Buttons /\ c.serial \in Nat
    BY DEF AnyCommand
  <2>3. \A i \in DOMAIN row : row[i] \in AnyCommand
    BY <2>1
  <2>4. ASSUME NEW i \in DOMAIN row, NEW j \in DOMAIN row, i < j
        PROVE  row[i].timestamp <= row[j].timestamp /\ row[i] # row[j]
    <3>1. row[i].serial < row[j].serial /\ row[i].serial \in Nat /\ row[j].serial \in Nat
      BY <2>2, <2>3, <2>4 DEF RowIsRight
    <3> QED BY <2>4, <3>1 DEF RowIsRight
  <2> QED BY <2>1, <2>2, <2>3, <2>4
<1>1. /\ \A i \in Pointers!Seen(s, row) :
           row[i].timestamp > s.previousFrameMax => row[i] \in v.thisFrameCommands
      /\ \A b \in Buttons : v.buttonState[b].timestamp >= s.buttonState[b].timestamp
      /\ \A c \in Pointers!Pressed(s, row) : v.buttonState[c.button] = c
      /\ ButtonsRight(v)
  BY RowIsDigested
<1>2. ASSUME NEW j \in DOMAIN row, k <= j, Pointers!EndsWalk(s, row, j)
      PROVE  \/ Behind(row[k], new)
             \/ row[j].timestamp <= s.buttonState[row[j].button].timestamp
                /\ s.buttonState[row[j].button].timestamp <= from
             \/ k = j /\ row[j].timestamp <= s.buttonState[row[j].button].timestamp
  <2>1. row[j].timestamp >= row[k].timestamp /\ row[j].timestamp > from
        /\ Pointers!IsPress(row[j]) /\ row[j] \in new
    BY <1>0, <1>2 DEF Pointers!EndsWalk
  <2>2. ASSUME NEW l \in j + 1 .. Len(row), Pointers!IsPress(row[l]), row[l].button = row[j].button
        PROVE  Behind(row[k], new)
    <3>1. l \in DOMAIN row /\ j < l
      BY <1>0, <2>2
    <3>2. row[l].timestamp >= row[j].timestamp /\ row[l] # row[j]
      BY <1>0, <3>1
    <3>3. row[l].timestamp >= row[k].timestamp /\ row[l].timestamp > from
      BY <1>0, <2>1, <3>1, <3>2
    <3> QED BY <2>1, <2>2, <3>1, <3>2, <3>3 DEF Behind
  <2>3. ASSUME row[j].timestamp <= s.buttonState[row[j].button].timestamp, k # j
        PROVE  Behind(row[k], new)
    <3> DEFINE d == s.buttonState[row[j].button]
    <3>1. d.timestamp \in Nat /\ row[j].button \in Buttons
      BY <1>0 DEF ButtonsRight
    <3>2. d.timestamp > from /\ d.timestamp >= row[k].timestamp
      BY <1>0, <2>1, <2>3, <3>1
    <3>3. d \in new /\ Pointers!IsPress(d) /\ d.button = row[j].button /\ d # row[j]
      BY <3>1, <3>2
    <3> HIDE DEF d
    <3> QED BY <2>1, <3>2, <3>3 DEF Behind
  <2> QED BY <1>2, <2>2, <2>3 DEF Pointers!EndsWalk
<1>3. CASE k \in Pointers!Seen(s, row)
  <2>1. row[k] \in v.thisFrameCommands
    BY <1>0, <1>1, <1>3
  <2>2. ASSUME Pointers!IsPress(row[k])
        PROVE  v.buttonState[row[k].button].timestamp >= row[k].timestamp \/ Behind(row[k], new)
    <3>1. CASE Pointers!EndsWalk(s, row, k)
      <4>1. Behind(row[k], new) \/ row[k].timestamp <= s.buttonState[row[k].button].timestamp
        BY <1>0, <1>2, <3>1
      <4>2. /\ v.buttonState[row[k].button].timestamp >= s.buttonState[row[k].button].timestamp
            /\ v.buttonState[row[k].button].timestamp \in Nat
            /\ s.buttonState[row[k].button].timestamp \in Nat
        BY <1>0, <1>1 DEF ButtonsRight
      <4> QED BY <1>0, <4>1, <4>2
    <3>2. CASE ~Pointers!EndsWalk(s, row, k)
      <4>1. row[k] \in Pointers!Pressed(s, row)
        BY <1>3, <2>2, <3>2 DEF Pointers!Pressed
      <4> QED BY <1>0, <1>1, <4>1
    <3> QED BY <3>1, <3>2
  <2> QED BY <2>1, <2>2 DEF Noticed
<1>4. CASE k \notin Pointers!Seen(s, row)
  <2>1. PICK j \in k + 1 .. Len(row) : Pointers!EndsWalk(s, row, j)
    BY <1>4 DEF Pointers!Seen
  <2>2. j \in DOMAIN row /\ k < j /\ k <= j /\ k # j
    BY <1>0, <2>1
  <2>3. \/ Behind(row[k], new)
        \/ row[j].timestamp <= s.buttonState[row[j].button].timestamp
           /\ s.buttonState[row[j].button].timestamp <= from
    BY <1>2, <2>1, <2>2
  <2>4. row[j].timestamp > from /\ s.buttonState[row[j].button].timestamp \in Nat
    BY <1>0, <2>2 DEF ButtonsRight
  <2> QED BY <1>0, <2>2, <2>3, <2>4
<1> QED BY <1>3, <1>4

(* The recursion over the rows, unfolded.                                  *)
LEMMA UpdateSteps ==
  ASSUME NEW s, NEW rows, Len(rows) \in Nat
  PROVE  \E after : /\ after[0] = [s EXCEPT !.previousFrameMax = s.currentFrameMax,
                                            !.thisFrameCommands = {}]
                    /\ \A i \in 1 .. Len(rows) :
                         after[i] = Pointers!DigestRow(after[i - 1], rows[i])
                    /\ Pointers!buttonStateUpdateSystem(s, rows) = after[Len(rows)]
<1> DEFINE n == Len(rows)
           first == [s EXCEPT !.previousFrameMax = s.currentFrameMax, !.thisFrameCommands = {}]
           Step(w, i) == Pointers!DigestRow(w, rows[i])
           Is(f, k) == f = [i \in 0 .. k |-> IF i = 0 THEN first ELSE Step(f[i - 1], i)]
           Defined == {k \in Nat : \E f : Is(f, k)}
<1>5. ASSUME NEW after, after = CHOOSE f : Is(f, n)
      PROVE  Pointers!buttonStateUpdateSystem(s, rows) = after[n]
  BY <1>5 DEF Pointers!buttonStateUpdateSystem
<1> HIDE DEF Step, first
<1>1. 0 \in Defined
  <2>1. Is([i \in 0 .. 0 |-> first], 0)
    OBVIOUS
  <2> QED BY <2>1
<1>2. ASSUME NEW k \in Nat, k \in Defined PROVE k + 1 \in Defined
  <2>1. PICK f : Is(f, k)
    BY <1>2
  <2> DEFINE g == [i \in 0 .. k + 1 |-> IF i = k + 1 THEN Step(f[k], k + 1) ELSE f[i]]
  <2>2. \A i \in 0 .. k : g[i] = f[i]
    OBVIOUS
  <2>3. ASSUME NEW i \in 0 .. k + 1
        PROVE  g[i] = IF i = 0 THEN first ELSE Step(g[i - 1], i)
    <3>1. CASE i = k + 1
      BY <3>1
    <3>2. CASE i # k + 1
      <4>1. i \in 0 .. k /\ (i # 0 => i - 1 \in 0 .. k)
        BY <3>2
      <4>2. f[i] = IF i = 0 THEN first ELSE Step(f[i - 1], i)
        BY <2>1, <4>1
      <4> QED BY <2>2, <4>1, <4>2
    <3> QED BY <3>1, <3>2
  <2>4. Is(g, k + 1)
    BY <2>3
  <2> HIDE DEF g, Is
  <2> QED BY <2>4
<1>3. n \in Defined
  <2> HIDE DEF Defined, n
  <2>1. n \in Nat
    BY DEF n
  <2> QED BY <2>1, <1>1, <1>2, Induction
<1> DEFINE after == CHOOSE f : Is(f, n)
<1>4. Is(after, n)
  BY <1>3
<1>6. Pointers!buttonStateUpdateSystem(s, rows) = after[n]
  BY <1>5
<1> HIDE DEF after
<1>7. after[0] = first /\ \A i \in 1 .. n : after[i] = Step(after[i - 1], i)
  BY <1>4
<1> QED BY <1>6, <1>7 DEF Step, first

RowsRight(s) ==
  /\ DOMAIN s = DigestFields /\ DOMAIN s.row = PointerEntities
  /\ s.clock \in Nat /\ s.serial \in Nat /\ s.frameTo \in Nat
  /\ s.previousFrameMax \in Nat /\ s.currentFrameMax \in Nat
  /\ s.previousFrameMax <= s.currentFrameMax /\ s.currentFrameMax <= s.frameTo
  /\ s.frameTo <= s.clock
  /\ ButtonsRight(s) /\ \A b \in Buttons : s.buttonState[b].timestamp <= s.frameTo
  /\ \A e \in PointerEntities : RowIsRight(s.row[e], s.clock)
  /\ \A e \in PointerEntities : \A i \in DOMAIN s.row[e] : s.row[e][i].serial <= s.serial
  /\ \A e1, e2 \in PointerEntities : \A i \in DOMAIN s.row[e1], j \in DOMAIN s.row[e2] :
       s.row[e1][i].serial = s.row[e2][j].serial => e1 = e2 /\ i = j

NewIn(s) == {c \in UNION {ToSet(s.row[e]) : e \in PointerEntities} : c.timestamp > s.frameTo}

(* An order of the rows has each of them once.                             *)
LEMMA OrderHasAll ==
  ASSUME NEW S, S \subseteq PointerEntities,
         NEW order \in Pointers!Injection(1 .. Pointers!Cardinality(S), S)
  PROVE  /\ Len(order) \in Nat /\ DOMAIN order = 1 .. Len(order)
         /\ \A i \in DOMAIN order : order[i] \in S
         /\ \A e \in S : \E i \in DOMAIN order : order[i] = e
         /\ \A i, j \in DOMAIN order : order[i] = order[j] => i = j
<1>1. IsFiniteSet(S)
  <2>1. Pointers!IsFiniteSet(PointerEntities) <=> IsFiniteSet(PointerEntities)
    BY Zenon DEF Pointers!IsFiniteSet, IsFiniteSet
  <2>2. IsFiniteSet(PointerEntities)
    BY <2>1, CoreAssumption, Zenon DEF Pointers!PointerAssumption
  <2> QED BY <2>2, FS_Subset
<1> DEFINE n == Cardinality(S)
<1>2. Pointers!Cardinality(S) = n
  BY Zenon DEF Pointers!Cardinality, Cardinality
<1>3. n \in Nat /\ IsFiniteSet(1 .. n) /\ Cardinality(1 .. n) = n
  BY <1>1, FS_CardinalityType, FS_Interval
<1>4. order \in [1 .. n -> S] /\ \A i, j \in 1 .. n : order[i] = order[j] => i = j
  BY <1>2 DEF Pointers!Injection, Pointers!IsInjective
<1>5. order \in Injection(1 .. n, S)
  BY <1>4 DEF Injection, IsInjective
<1>6. order \in Surjection(1 .. n, S)
  <2>1. Cardinality(1 .. n) = Cardinality(S) <=> order \in Surjection(1 .. n, S)
    BY <1>1, <1>5, FS_Injection
  <2> QED BY <1>3, <2>1
<1>7. \A e \in S : \E i \in 1 .. n : order[i] = e
  BY <1>6 DEF Surjection
<1>8. DOMAIN order = 1 .. n
  BY <1>4
<1>9. Len(order) = n
  <2> HIDE DEF n
  <2>1. order \in Seq(S)
    BY <1>3, <1>4
  <2>2. Len(order) \in Nat /\ DOMAIN order = 1 .. Len(order)
    BY <2>1
  <2> QED BY <1>3, <1>8, <2>2
<1> HIDE DEF n
<1> QED BY <1>3, <1>4, <1>7, <1>8, <1>9

(* v is s after the first i rows in the order.                             *)
Digested(s, order, v, i) ==
  /\ DOMAIN v = DigestFields
  /\ \A f \in DigestFields \ (RowDigests \cup {"previousFrameMax"}) : v[f] = s[f]
  /\ v.previousFrameMax = s.currentFrameMax
  /\ v.currentFrameMax \in Nat /\ s.currentFrameMax <= v.currentFrameMax
  /\ v.currentFrameMax <= s.clock
  /\ ButtonsRight(v) /\ \A b \in Buttons : v.buttonState[b].timestamp <= s.clock
  /\ \A b \in Buttons : v.buttonState[b].timestamp > s.frameTo =>
       /\ Pointers!IsPress(v.buttonState[b]) /\ v.buttonState[b].button = b
       /\ \E j \in 1 .. i : \E k \in DOMAIN s.row[order[j]] : v.buttonState[b] = s.row[order[j]][k]
  /\ \A j \in 1 .. i : \A k \in DOMAIN s.row[order[j]] :
       s.row[order[j]][k].timestamp > s.frameTo =>
         Noticed(v, s.row[order[j]][k]) \/ Behind(s.row[order[j]][k], NewIn(s))

(* One more row.                                                           *)
LEMMA OneMoreRow ==
  ASSUME NEW s, RowsRight(s), NEW order, NEW n \in Nat,
         \A i \in 1 .. n : order[i] \in PointerEntities,
         \A i, j \in 1 .. n : order[i] = order[j] => i = j,
         NEW m \in Nat, m + 1 <= n, NEW u, Digested(s, order, u, m),
         NEW v, v = Pointers!DigestRow(u, s.row[order[m + 1]])
  PROVE  Digested(s, order, v, m + 1)
<1> DEFINE e == order[m + 1]
           row == s.row[e]
<1>1. e \in PointerEntities /\ RowIsRight(row, s.clock) /\ s.clock \in Nat /\ s.frameTo \in Nat
      /\ s.currentFrameMax \in Nat /\ s.currentFrameMax <= s.frameTo
  BY DEF RowsRight
<1>2. /\ DOMAIN u = DigestFields /\ ButtonsRight(u) /\ u.currentFrameMax \in Nat
      /\ u.currentFrameMax <= s.clock /\ u.previousFrameMax = s.currentFrameMax
      /\ s.currentFrameMax <= u.currentFrameMax
  BY DEF Digested
<1>3. /\ DOMAIN v = DigestFields
      /\ \A f \in DigestFields \ RowDigests : v[f] = u[f]
      /\ v.currentFrameMax \in Nat /\ u.currentFrameMax <= v.currentFrameMax
      /\ v.currentFrameMax <= s.clock
      /\ u.thisFrameCommands \subseteq v.thisFrameCommands
      /\ ButtonsRight(v)
      /\ \A b \in Buttons : /\ v.buttonState[b].timestamp >= u.buttonState[b].timestamp
                            /\ \/ v.buttonState[b] = u.buttonState[b]
                               \/ v.buttonState[b] \in Pointers!Pressed(u, row)
                                  /\ v.buttonState[b].button = b
  BY <1>1, <1>2, RowIsDigested
<1>4. /\ row \in Seq(AnyCommand) /\ DOMAIN row = 1 .. Len(row)
      /\ \A k \in DOMAIN row : row[k] \in AnyCommand
  BY <1>1 DEF RowIsRight
<1>5. \A k \in DOMAIN row : row[k].timestamp > s.frameTo => row[k] \in NewIn(s)
  BY <1>1, <1>4 DEF NewIn, ToSet
<1>6. ASSUME NEW b \in Buttons, u.buttonState[b].timestamp > s.frameTo
      PROVE  /\ u.buttonState[b] \in NewIn(s) /\ Pointers!IsPress(u.buttonState[b])
             /\ u.buttonState[b].button = b
             /\ \A i \in DOMAIN row : row[i] # u.buttonState[b]
  <2>1. PICK j \in 1 .. m : \E k \in DOMAIN s.row[order[j]] : u.buttonState[b] = s.row[order[j]][k]
    BY <1>6 DEF Digested
  <2>2. PICK k \in DOMAIN s.row[order[j]] : u.buttonState[b] = s.row[order[j]][k]
    BY <2>1
  <2>3. j \in 1 .. n /\ m + 1 \in 1 .. n /\ j # m + 1
    OBVIOUS
  <2>4. order[j] \in PointerEntities /\ order[j] # e
    BY <2>3
  <2>5. \A i \in DOMAIN row : row[i].serial # s.row[order[j]][k].serial
    BY <1>1, <2>2, <2>4 DEF RowsRight
  <2>6. \A i \in DOMAIN row : row[i] # u.buttonState[b]
    BY <2>2, <2>5
  <2>7. u.buttonState[b] \in NewIn(s)
    BY <1>6, <2>2, <2>4 DEF NewIn, ToSet
  <2> QED BY <1>6, <2>6, <2>7 DEF Digested
<1>7. ASSUME NEW k \in DOMAIN row, row[k].timestamp > s.frameTo
      PROVE  Noticed(v, row[k]) \/ Behind(row[k], NewIn(s))
  <2>1. u.previousFrameMax \in Nat /\ u.previousFrameMax <= s.frameTo
    BY <1>1, <1>2
  <2> HIDE DEF e
  <2> QED BY <1>1, <1>2, <1>5, <1>6, <1>7, <2>1, RowIsNoticed DEF e
<1>8. ASSUME NEW j \in 1 .. m, NEW k \in DOMAIN s.row[order[j]], s.row[order[j]][k].timestamp > s.frameTo
      PROVE  Noticed(v, s.row[order[j]][k]) \/ Behind(s.row[order[j]][k], NewIn(s))
  <2> DEFINE c == s.row[order[j]][k]
  <2>1. Noticed(u, c) \/ Behind(c, NewIn(s))
    BY <1>8 DEF Digested
  <2>2. c.button \in Buttons /\ c.timestamp \in Nat
    <3>1. j \in 1 .. n
      OBVIOUS
    <3>2. order[j] \in PointerEntities
      BY <3>1
    <3>3. s.row[order[j]] \in Seq(AnyCommand)
      BY <3>2 DEF RowsRight, RowIsRight
    <3>4. c \in AnyCommand
      BY <3>3
    <3> QED BY <3>4 DEF AnyCommand
  <2>3. /\ v.buttonState[c.button].timestamp >= u.buttonState[c.button].timestamp
        /\ v.buttonState[c.button].timestamp \in Nat /\ u.buttonState[c.button].timestamp \in Nat
    BY <1>2, <1>3, <2>2, Zenon DEF ButtonsRight
  <2> HIDE DEF c
  <2>4. ASSUME Noticed(u, c) PROVE Noticed(v, c)
    <3>1. c \in v.thisFrameCommands
      BY <1>3, <2>4 DEF Noticed
    <3>2. ASSUME Pointers!IsPress(c) PROVE v.buttonState[c.button].timestamp >= c.timestamp
      <4>1. u.buttonState[c.button].timestamp >= c.timestamp
        BY <2>4, <3>2, Zenon DEF Noticed
      <4> QED BY <2>2, <2>3, <4>1
    <3> QED BY <3>1, <3>2, Zenon DEF Noticed
  <2> QED BY <2>1, <2>4 DEF c
<1>9. ASSUME NEW b \in Buttons
      PROVE  /\ v.buttonState[b].timestamp <= s.clock
             /\ v.buttonState[b].timestamp > s.frameTo =>
                  /\ Pointers!IsPress(v.buttonState[b]) /\ v.buttonState[b].button = b
                  /\ \E j \in 1 .. m + 1 : \E k \in DOMAIN s.row[order[j]] :
                       v.buttonState[b] = s.row[order[j]][k]
  <2>1. CASE v.buttonState[b] = u.buttonState[b]
    <3>1. \A j \in 1 .. m : j \in 1 .. m + 1
      OBVIOUS
    <3> QED BY <2>1, <3>1 DEF Digested
  <2>2. CASE v.buttonState[b] \in Pointers!Pressed(u, row) /\ v.buttonState[b].button = b
    <3>1. PICK k \in DOMAIN row : v.buttonState[b] = row[k] /\ Pointers!IsPress(row[k])
      BY <2>2 DEF Pointers!Pressed, Pointers!Seen
    <3>2. m + 1 \in 1 .. m + 1
      OBVIOUS
    <3> QED BY <1>1, <2>2, <3>1, <3>2 DEF RowIsRight
  <2> QED BY <1>3, <2>1, <2>2, Zenon
<1>10. \A f \in DigestFields \ (RowDigests \cup {"previousFrameMax"}) : v[f] = s[f]
  BY <1>3 DEF Digested
<1>11. v.previousFrameMax = s.currentFrameMax
  BY <1>2, <1>3 DEF DigestFields, RowDigests
<1>12. s.currentFrameMax <= v.currentFrameMax
  BY <1>1, <1>2, <1>3
<1>13. \A j \in 1 .. m + 1 : j \in 1 .. m \/ j = m + 1
  OBVIOUS
<1> HIDE DEF row
<1>14. \A j \in 1 .. m + 1 : \A k \in DOMAIN s.row[order[j]] :
         s.row[order[j]][k].timestamp > s.frameTo =>
           Noticed(v, s.row[order[j]][k]) \/ Behind(s.row[order[j]][k], NewIn(s))
  BY <1>7, <1>8, <1>13 DEF row
<1> QED BY <1>3, <1>9, <1>10, <1>11, <1>12, <1>14, Zenon DEF Digested

(* The input system's part of a frame.                                     *)
LEMMA FrameIsDigested ==
  ASSUME NEW s, RowsRight(s),
         NEW S, S = {e \in PointerEntities : s.row[e] # <<>>},
         NEW order \in Pointers!Injection(1 .. Pointers!Cardinality(S), S),
         NEW v, v = Pointers!buttonStateUpdateSystem(s, [i \in DOMAIN order |-> s.row[order[i]]])
  PROVE  /\ DOMAIN v = DigestFields
         /\ \A f \in DigestFields \ (RowDigests \cup {"previousFrameMax"}) : v[f] = s[f]
         /\ v.previousFrameMax = s.currentFrameMax
         /\ v.currentFrameMax \in Nat /\ s.currentFrameMax <= v.currentFrameMax
         /\ v.currentFrameMax <= s.clock
         /\ ButtonsRight(v) /\ \A b \in Buttons : v.buttonState[b].timestamp <= s.clock
         /\ \A c \in NewIn(s) : Noticed(v, c) \/ Behind(c, NewIn(s))
<1> DEFINE n == Len(order)
           rows == [i \in DOMAIN order |-> s.row[order[i]]]
<1>1. /\ n \in Nat /\ DOMAIN order = 1 .. n
      /\ \A i \in 1 .. n : order[i] \in S
      /\ \A e \in S : \E i \in 1 .. n : order[i] = e
      /\ \A i, j \in 1 .. n : order[i] = order[j] => i = j
  <2>1. S \subseteq PointerEntities
    OBVIOUS
  <2>2. /\ Len(order) \in Nat /\ DOMAIN order = 1 .. Len(order)
        /\ \A i \in DOMAIN order : order[i] \in S
        /\ \A e \in S : \E i \in DOMAIN order : order[i] = e
        /\ \A i, j \in DOMAIN order : order[i] = order[j] => i = j
    BY <2>1, OrderHasAll
  <2> QED BY <2>2
<1>2. Len(rows) = n /\ \A i \in 1 .. n : rows[i] = s.row[order[i]]
  BY <1>1
<1> HIDE DEF rows, n
<1>3. PICK after : /\ after[0] = [s EXCEPT !.previousFrameMax = s.currentFrameMax,
                                           !.thisFrameCommands = {}]
                   /\ \A i \in 1 .. n : after[i] = Pointers!DigestRow(after[i - 1], rows[i])
                   /\ v = after[n]
  <2>1. v = Pointers!buttonStateUpdateSystem(s, rows)
    BY DEF rows
  <2>2. Len(rows) \in Nat
    BY <1>1, <1>2
  <2>3. \E after : /\ after[0] = [s EXCEPT !.previousFrameMax = s.currentFrameMax,
                                           !.thisFrameCommands = {}]
                   /\ \A i \in 1 .. Len(rows) : after[i] = Pointers!DigestRow(after[i - 1], rows[i])
                   /\ Pointers!buttonStateUpdateSystem(s, rows) = after[Len(rows)]
    BY <2>2, UpdateSteps
  <2> QED BY <1>2, <2>1, <2>3, Zenon
<1> DEFINE Done == {m \in Nat : m <= n => Digested(s, order, after[m], m)}
<1>4. 0 \in Done
  <2> DEFINE u == after[0]
  <2>1. /\ DOMAIN u = DigestFields /\ u.previousFrameMax = s.currentFrameMax
        /\ u.currentFrameMax = s.currentFrameMax /\ u.buttonState = s.buttonState
        /\ \A f \in DigestFields \ (RowDigests \cup {"previousFrameMax"}) : u[f] = s[f]
    BY <1>3 DEF RowsRight, DigestFields, RowDigests
  <2>2. /\ s.currentFrameMax \in Nat /\ s.currentFrameMax <= s.clock /\ ButtonsRight(u)
        /\ \A b \in Buttons : /\ u.buttonState[b].timestamp <= s.clock
                              /\ ~(u.buttonState[b].timestamp > s.frameTo)
    BY <2>1 DEF RowsRight, ButtonsRight
  <2>3. Digested(s, order, u, 0)
    BY <2>1, <2>2 DEF Digested
  <2> QED BY <2>3
<1>5. ASSUME NEW m \in Nat, m \in Done PROVE m + 1 \in Done
  <2>0. SUFFICES ASSUME m + 1 <= n PROVE Digested(s, order, after[m + 1], m + 1)
    OBVIOUS
  <2>1. m + 1 \in 1 .. n /\ m <= n /\ (m + 1) - 1 = m
    BY <1>1, <2>0
  <2>2. after[m + 1] = Pointers!DigestRow(after[m], s.row[order[m + 1]])
    BY <1>2, <1>3, <2>1
  <2>3. Digested(s, order, after[m], m)
    BY <1>5, <2>1
  <2>4. \A i \in 1 .. n : order[i] \in PointerEntities
    BY <1>1
  <2> QED BY <1>1, <2>0, <2>2, <2>3, <2>4, OneMoreRow
<1>6. Digested(s, order, v, n)
  <2> HIDE DEF Done
  <2>1. n \in Done
    BY <1>1, <1>4, <1>5, Induction, Zenon
  <2>2. n <= n
    BY <1>1
  <2> QED BY <1>3, <2>1, <2>2 DEF Done
<1>7. ASSUME NEW c \in NewIn(s) PROVE Noticed(v, c) \/ Behind(c, NewIn(s))
  <2>1. PICK e \in PointerEntities : c \in ToSet(s.row[e])
    BY DEF NewIn
  <2>2. PICK k \in DOMAIN s.row[e] : c = s.row[e][k]
    BY <2>1 DEF ToSet
  <2>3. s.row[e] # <<>>
    BY <2>2
  <2>4. PICK i \in 1 .. n : order[i] = e
    BY <1>1, <2>3
  <2>5. c.timestamp > s.frameTo
    BY DEF NewIn
  <2> QED BY <1>6, <2>2, <2>4, <2>5 DEF Digested
<1> QED BY <1>6, <1>7 DEF Digested

-----------------------------------------------------------------------------
PointerFields ==
  {"eventsMap", "PointerEvents", "phase", "calls", "heard", "heardAgain"}

(* What a callback has heard is of frames gone by; it will not be of a     *)
(* frame again.                                                            *)
HeardIsPast(s, p) ==
  \A h \in p.heard :
    /\ h.serial <= s.serial
    /\ \A e \in PointerEntities : \A i \in DOMAIN s.row[e] :
         s.row[e][i].serial = h.serial =>
           s.row[e][i].timestamp <= IF p.phase = "systems" THEN s.previousFrameMax
                                    ELSE s.currentFrameMax

(* A callback is one that the scene registers.                             *)
Registered(t, callback) ==
  \E f \in Registrations : \E opts \in PointerOptions[f] :
    Pointers!TypeOf[f] = t /\ callback.button = opts.button

AllAnnounced(p, used) ==
  \A e \in PointerEntities, t \in Pointers!EventTypes :
    p.eventsMap[e][t] # Pointers!NoCallback =>
      /\ Registered(t, p.eventsMap[e][t])
      /\ used[e] = "used" /\ Pointers!Alone(t, p.eventsMap[e][t].button)
           => \E x \in p.PointerEvents[e] :
                x.state = Pointers!getPointerEvent(t) /\ x.button = p.eventsMap[e][t].button

PointersRight(s, p, used) ==
  /\ RowsRight(s)
  /\ \A c \in s.frame : Noticed(s, c) \/ Behind(c, s.frame)
  /\ DOMAIN p = PointerFields /\ p.phase \in {"renderer", "systems"}
  /\ p.calls \in Nat
  /\ DOMAIN p.eventsMap = PointerEntities /\ DOMAIN p.PointerEvents = PointerEntities
  /\ DOMAIN used = PointerEntities
  /\ \A e \in PointerEntities : DOMAIN p.eventsMap[e] = Pointers!EventTypes
  /\ HeardIsPast(s, p) /\ p.heardAgain = FALSE
  /\ \A h \in p.heard : h.serial \in Nat
  /\ AllAnnounced(p, used)

PointerInv == PointersRight(state, pointer, entityState)

LEMMA PointersStart == Pointers!Init => PointerInv
<1> SUFFICES ASSUME Pointers!Init PROVE PointerInv
  OBVIOUS
<1>1. /\ state = [row |-> [e \in PointerEntities |-> <<>>], previousFrameMax |-> 0,
                  currentFrameMax |-> 0,
                  buttonState |-> [b \in Buttons |-> [timestamp |-> 0]],
                  thisFrameCommands |-> {}, clock |-> 0, serial |-> 0, frame |-> {}, frameTo |-> 0]
  BY DEF Pointers!Init, Pointers!InputInit, Pointers!Nothing
<1>2. RowsRight(state) /\ state.frame = {}
  <2>1. \A c : RowIsRight(<<>>, c)
    BY DEF RowIsRight
  <2>2. ButtonsRight(state) /\ \A b \in Buttons : state.buttonState[b].timestamp <= state.frameTo
    BY <1>1 DEF ButtonsRight
  <2>3. \A e \in PointerEntities : state.row[e] = <<>>
    BY <1>1
  <2>4. \A e \in PointerEntities : DOMAIN state.row[e] = {}
    BY <2>3
  <2> QED BY <1>1, <2>1, <2>2, <2>3, <2>4 DEF RowsRight, DigestFields
<1>3. /\ pointer = [eventsMap |-> [e \in PointerEntities |-> [t \in Pointers!EventTypes |-> Pointers!NoCallback]],
                    PointerEvents |-> [e \in PointerEntities |-> {}],
                    phase |-> "renderer", calls |-> 0, heard |-> {}, heardAgain |-> FALSE]
      /\ entityState = [e \in PointerEntities |-> "used"]
  BY DEF Pointers!Init, Pointers!PointerInit
<1>4. HeardIsPast(state, pointer) /\ AllAnnounced(pointer, entityState)
  BY <1>3 DEF HeardIsPast, AllAnnounced
<1> QED BY <1>2, <1>3, <1>4 DEF PointerInv, PointersRight, PointerFields

(* The renderer's command is after all that there are.                     *)
LEMMA CommandKeepsRows ==
  ASSUME NEW s, RowsRight(s), NEW e \in PointerEntities, NEW c \in AnyCommand,
         c.serial = s.serial + 1, c.timestamp \in {s.clock, s.clock + 1}, NEW v,
         DOMAIN v = DigestFields,
         \A f \in DigestFields \ {"row", "clock", "serial"} : v[f] = s[f],
         v.serial = s.serial + 1, v.clock = c.timestamp,
         v.row = [s.row EXCEPT ![e] = Append(s.row[e], c)]
  PROVE  /\ RowsRight(v)
         /\ \A d \in PointerEntities : \A i \in DOMAIN v.row[d] :
              \/ i \in DOMAIN s.row[d] /\ v.row[d][i] = s.row[d][i]
              \/ v.row[d][i].serial = v.serial
<1> DEFINE row == s.row[e]
           n == Len(row)
<1>1. /\ DOMAIN v = DigestFields
      /\ \A f \in DigestFields \ {"row", "clock", "serial"} : v[f] = s[f]
      /\ v.serial = s.serial + 1 /\ v.clock = c.timestamp
      /\ v.row = [s.row EXCEPT ![e] = Append(row, c)]
  OBVIOUS
<1>2. /\ row \in Seq(AnyCommand) /\ n \in Nat /\ DOMAIN row = 1 .. n
      /\ Append(row, c) \in Seq(AnyCommand) /\ DOMAIN Append(row, c) = 1 .. n + 1
      /\ Append(row, c)[n + 1] = c /\ \A i \in 1 .. n : Append(row, c)[i] = row[i]
  BY DEF RowsRight, RowIsRight
<1>3. /\ s.clock \in Nat /\ s.serial \in Nat /\ v.clock \in Nat /\ v.serial \in Nat /\ v.clock >= s.clock
  BY <1>1 DEF RowsRight
<1>4. \A d \in PointerEntities : v.row[d] = IF d = e THEN Append(row, c) ELSE s.row[d]
  BY <1>1 DEF RowsRight
<1>5. \A d \in PointerEntities : \A i \in DOMAIN s.row[d] :
        /\ s.row[d][i].timestamp \in Nat /\ s.row[d][i].timestamp <= s.clock
        /\ s.row[d][i].serial \in Nat /\ s.row[d][i].serial <= s.serial
  <2>1. \A d \in PointerEntities : \A i \in DOMAIN s.row[d] : s.row[d][i] \in AnyCommand
    BY DEF RowsRight, RowIsRight
  <2>2. \A x \in AnyCommand : x.timestamp \in Nat /\ x.serial \in Nat
    BY DEF AnyCommand
  <2> QED BY <2>1, <2>2 DEF RowsRight, RowIsRight
<1> HIDE DEF n
<1>6. ASSUME NEW d \in PointerEntities, NEW i \in DOMAIN v.row[d]
      PROVE  \/ i \in DOMAIN s.row[d] /\ v.row[d][i] = s.row[d][i]
             \/ d = e /\ i = n + 1 /\ v.row[d][i] = c
  <2>1. CASE d = e
    <3>1. i \in 1 .. n + 1
      BY <1>2, <1>4, <2>1
    <3>2. i \in 1 .. n \/ i = n + 1
      BY <1>2, <3>1
    <3> QED BY <1>2, <1>4, <2>1, <3>2
  <2>2. CASE d # e
    BY <1>4, <2>2
  <2> QED BY <2>1, <2>2
<1>7. ASSUME NEW d \in PointerEntities PROVE RowIsRight(v.row[d], v.clock)
  <2>1. v.row[d] \in Seq(AnyCommand)
    BY <1>2, <1>4 DEF RowsRight, RowIsRight
  <2>2. \A i \in DOMAIN v.row[d] : v.row[d][i].timestamp <= v.clock
    BY <1>1, <1>3, <1>5, <1>6
  <2>3. ASSUME NEW i \in DOMAIN v.row[d], NEW j \in DOMAIN v.row[d], i < j
        PROVE  v.row[d][i].timestamp <= v.row[d][j].timestamp /\ v.row[d][i].serial < v.row[d][j].serial
    <3>1. CASE j \in DOMAIN s.row[d] /\ v.row[d][j] = s.row[d][j]
      <4>1. i \in DOMAIN s.row[d] /\ v.row[d][i] = s.row[d][i]
        <5>1. ~(d = e /\ i = n + 1)
          BY <1>2, <2>3, <3>1
        <5> QED BY <1>6, <5>1
      <4> QED BY <2>3, <3>1, <4>1 DEF RowsRight, RowIsRight
    <3>2. CASE d = e /\ j = n + 1 /\ v.row[d][j] = c
      <4>1. i \in DOMAIN s.row[d] /\ v.row[d][i] = s.row[d][i]
        <5>1. i # n + 1
          BY <1>2, <2>3, <3>2
        <5> QED BY <1>6, <5>1
      <4>2. /\ v.row[d][i].timestamp \in Nat /\ v.row[d][i].timestamp <= s.clock
            /\ v.row[d][i].serial \in Nat /\ v.row[d][i].serial <= s.serial
        BY <1>5, <4>1
      <4>3. v.row[d][j].timestamp = v.clock /\ v.row[d][j].serial = s.serial + 1
        BY <1>1, <3>2
      <4>4. /\ s.clock \in Nat /\ s.serial \in Nat /\ v.clock \in Nat /\ v.clock >= s.clock
        BY <1>3
      <4>5. v.row[d][i].timestamp <= v.clock /\ v.row[d][i].serial < s.serial + 1
        <5> DEFINE x == v.row[d][i].timestamp
                   y == v.row[d][i].serial
        <5>1. x \in Nat /\ x <= s.clock /\ y \in Nat /\ y <= s.serial
          BY <4>2
        <5> HIDE DEF x, y
        <5>2. x <= v.clock /\ y < s.serial + 1
          BY <4>4, <5>1
        <5> QED BY <5>2 DEF x, y
      <4> QED BY <4>3, <4>5, Zenon
    <3> QED BY <1>6, <3>1, <3>2
  <2> QED BY <2>1, <2>2, <2>3 DEF RowIsRight
<1>8. \A d \in PointerEntities : \A i \in DOMAIN v.row[d] : v.row[d][i].serial <= v.serial
  BY <1>1, <1>3, <1>5, <1>6
<1>9. ASSUME NEW d1 \in PointerEntities, NEW d2 \in PointerEntities,
             NEW i \in DOMAIN v.row[d1], NEW j \in DOMAIN v.row[d2],
             v.row[d1][i].serial = v.row[d2][j].serial
      PROVE  d1 = d2 /\ i = j
  <2>1. CASE d1 = e /\ i = n + 1 /\ v.row[d1][i] = c
    <3>1. ASSUME j \in DOMAIN s.row[d2], v.row[d2][j] = s.row[d2][j] PROVE FALSE
      <4>1. s.row[d2][j].serial \in Nat /\ s.row[d2][j].serial <= s.serial
        BY <1>5, <3>1
      <4>2. s.row[d2][j].serial = s.serial + 1
        BY <1>9, <2>1, <3>1
      <4> QED BY <1>3, <4>1, <4>2
    <3> QED BY <1>6, <2>1, <3>1
  <2>2. CASE i \in DOMAIN s.row[d1] /\ v.row[d1][i] = s.row[d1][i]
    <3>1. ASSUME v.row[d2][j] = c PROVE FALSE
      <4>1. s.row[d1][i].serial \in Nat /\ s.row[d1][i].serial <= s.serial
        BY <1>5, <2>2
      <4>2. s.row[d1][i].serial = s.serial + 1
        BY <1>9, <2>2, <3>1
      <4> QED BY <1>3, <4>1, <4>2
    <3>2. j \in DOMAIN s.row[d2] /\ v.row[d2][j] = s.row[d2][j]
      BY <1>6, <3>1
    <3> QED BY <1>9, <2>2, <3>2 DEF RowsRight
  <2> QED BY <1>6, <2>1, <2>2
<1>10. /\ v.frameTo = s.frameTo /\ v.previousFrameMax = s.previousFrameMax
       /\ v.currentFrameMax = s.currentFrameMax /\ v.buttonState = s.buttonState
  BY <1>1 DEF DigestFields
<1>11. DOMAIN v.row = PointerEntities /\ s.frameTo <= v.clock /\ ButtonsRight(v)
  BY <1>1, <1>3, <1>10 DEF RowsRight, ButtonsRight
<1>12. RowsRight(v)
  BY <1>1, <1>3, <1>7, <1>8, <1>9, <1>10, <1>11 DEF RowsRight
<1>13. \A d \in PointerEntities : \A i \in DOMAIN v.row[d] :
              \/ i \in DOMAIN s.row[d] /\ v.row[d][i] = s.row[d][i]
              \/ v.row[d][i].serial = v.serial
  BY <1>1, <1>6
<1> QED BY <1>12, <1>13

(* A removed entity has an empty row.                                      *)
LEMMA RemovalKeepsRows ==
  ASSUME NEW s, RowsRight(s), NEW e \in PointerEntities, NEW v, v = [s EXCEPT !.row[e] = <<>>]
  PROVE  /\ RowsRight(v) /\ \A f \in DigestFields \ {"row"} : v[f] = s[f]
         /\ \A d \in PointerEntities : \A i \in DOMAIN v.row[d] :
              i \in DOMAIN s.row[d] /\ v.row[d][i] = s.row[d][i]
<1>1. DOMAIN v = DigestFields /\ \A f \in DigestFields \ {"row"} : v[f] = s[f]
  BY DEF RowsRight, DigestFields
<1>2. DOMAIN v.row = PointerEntities
      /\ \A d \in PointerEntities : v.row[d] = IF d = e THEN <<>> ELSE s.row[d]
  BY DEF RowsRight, DigestFields
<1>3. \A d \in PointerEntities : \A i \in DOMAIN v.row[d] :
        i \in DOMAIN s.row[d] /\ v.row[d][i] = s.row[d][i]
  BY <1>2
<1>4. /\ v.frameTo = s.frameTo /\ v.previousFrameMax = s.previousFrameMax
      /\ v.currentFrameMax = s.currentFrameMax /\ v.buttonState = s.buttonState
      /\ v.clock = s.clock /\ v.serial = s.serial
  BY <1>1 DEF DigestFields
<1>5. \A d \in PointerEntities : RowIsRight(v.row[d], v.clock)
  BY <1>2, <1>4 DEF RowsRight, RowIsRight
<1>6. \A d \in PointerEntities : \A i \in DOMAIN v.row[d] : v.row[d][i].serial <= v.serial
  BY <1>3, <1>4 DEF RowsRight
<1>7. \A d1, d2 \in PointerEntities : \A i \in DOMAIN v.row[d1], j \in DOMAIN v.row[d2] :
        v.row[d1][i].serial = v.row[d2][j].serial => d1 = d2 /\ i = j
  BY <1>3 DEF RowsRight
<1>8. ButtonsRight(v)
  BY <1>4 DEF ButtonsRight, RowsRight
<1>9. RowsRight(v)
  BY <1>1, <1>2, <1>4, <1>5, <1>6, <1>7, <1>8 DEF RowsRight
<1> QED BY <1>1, <1>3, <1>9

(* What a callback gets is a command of its entity, of this frame.         *)
LEMMA CommandIsOfFrame ==
  ASSUME RowsRight(state), NEW type, NEW callback, NEW e \in PointerEntities,
         NEW c \in Pointers!CommandFor(type, callback, e)
  PROVE  \E i \in DOMAIN state.row[e] :
           /\ c = state.row[e][i]
           /\ state.previousFrameMax < c.timestamp /\ c.timestamp <= state.currentFrameMax
<1> DEFINE row == state.row[e]
           Right(d) == \E i \in DOMAIN row : d = row[i] /\ Pointers!timestampIsCurrentFrame(d.timestamp)
<1>1. row \in Seq(AnyCommand) /\ DOMAIN row = 1 .. Len(row) /\ Len(row) \in Nat
  BY DEF RowsRight, RowIsRight
<1>2. ASSUME NEW S \in SUBSET (1 .. Len(row))
      PROVE  Pointers!Max({0} \cup S) \in {0} \cup S
  <2>1. Pointers!Max({0} \cup S) = Max({0} \cup S)
    BY Zenon DEF Pointers!Max, Max
  <2>2. {0} \cup S \in SUBSET Int /\ {0} \cup S # {} /\ \A x \in {0} \cup S : x <= Len(row)
    BY <1>1
  <2>3. Len(row) \in Int
    BY <1>1
  <2> QED BY <2>1, <2>2, <2>3, MaxIsGreatest
<1>3. ASSUME NEW s, NEW b PROVE Pointers!findLastAction(s, b, e) \in 0 .. Len(row)
  <2> DEFINE S == {i \in 1 .. Len(row) : row[i].button = b /\ row[i].state = s}
  <2>1. Pointers!findLastAction(s, b, e) = Pointers!Max({0} \cup S)
    BY DEF Pointers!findLastAction, Pointers!LastIndex
  <2>2. Pointers!Max({0} \cup S) \in {0} \cup S
    BY <1>2
  <2>3. {0} \cup S \subseteq 0 .. Len(row)
    BY <1>1
  <2> QED BY <2>1, <2>2, <2>3, Zenon
<1>4. ASSUME NEW s, NEW b, NEW d \in Pointers!findInputCommand(b, s, e) PROVE Right(d)
  BY <1>1, <1>3, <1>4 DEF Pointers!findInputCommand
<1>5. ASSUME NEW b, NEW d \in Pointers!findClick(b, e) PROVE Right(d)
  <2>1. /\ Pointers!findLastAction("up", b, e) # 0
        /\ d = row[Pointers!findLastAction("up", b, e)]
        /\ Pointers!timestampIsCurrentFrame(d.timestamp)
    BY <1>5 DEF Pointers!findClick
  <2>2. Pointers!findLastAction("up", b, e) \in DOMAIN row
    BY <1>1, <1>3, <2>1
  <2> QED BY <2>1, <2>2
<1>6. Right(c)
  <2>1. CASE type = "Click"
    <3>1. c \in Pointers!getClick(callback.button, e)
      BY <2>1 DEF Pointers!CommandFor
    <3>2. \E b : c \in Pointers!findClick(b, e)
      BY <3>1 DEF Pointers!getClick, Pointers!FirstOf
    <3> QED BY <1>5, <3>2
  <2>2. CASE type # "Click"
    <3>1. c \in Pointers!getInputCommandFromEntity(callback.button, Pointers!getPointerEvent(type), e)
      BY <2>2 DEF Pointers!CommandFor
    <3>2. \E b, s : c \in Pointers!findInputCommand(b, s, e)
      BY <3>1 DEF Pointers!getInputCommandFromEntity, Pointers!FirstOf
    <3> QED BY <1>4, <3>2
  <2> QED BY <2>1, <2>2
<1> QED BY <1>6 DEF Pointers!timestampIsCurrentFrame

(* The systems of the frame: each callback hears what is of the frame, and *)
(* removed entities lose theirs.                                           *)
LEMMA CallbacksHearOnce ==
  ASSUME PointerInv, Pointers!PointerEventSystem
  PROVE  PointerInv'
<1> DEFINE gone == {e \in PointerEntities : entityState[e] = "removed"}
           live == {x \in (PointerEntities \ gone) \X Pointers!EventTypes :
                      pointer.eventsMap[x[1]][x[2]] # Pointers!NoCallback}
           calls == UNION {{[id |-> pointer.eventsMap[x[1]][x[2]].id, serial |-> c.serial] :
                              c \in Pointers!CommandFor(x[2], pointer.eventsMap[x[1]][x[2]], x[1])} :
                           x \in live}
<1>1. /\ pointer.phase = "systems" /\ state' = state
      /\ pointer' = [pointer EXCEPT
           !.eventsMap = [e \in PointerEntities |-> IF e \in gone
                                             THEN [t \in Pointers!EventTypes |-> Pointers!NoCallback]
                                             ELSE @[e]],
           !.phase = "renderer", !.heard = @ \cup calls,
           !.heardAgain = @ \/ pointer.heard \cap calls # {}]
      /\ entityState' = [e \in PointerEntities |-> IF entityState[e] = "removing"
                                                   THEN "removed" ELSE entityState[e]]
  BY DEF Pointers!PointerEventSystem
<1>2. ASSUME NEW h \in calls
      PROVE  \E e \in PointerEntities : \E i \in DOMAIN state.row[e] :
               /\ h.serial = state.row[e][i].serial
               /\ state.previousFrameMax < state.row[e][i].timestamp
               /\ state.row[e][i].timestamp <= state.currentFrameMax
  <2>1. PICK x \in live : \E c \in Pointers!CommandFor(x[2], pointer.eventsMap[x[1]][x[2]], x[1]) :
          h = [id |-> pointer.eventsMap[x[1]][x[2]].id, serial |-> c.serial]
    OBVIOUS
  <2>2. PICK c \in Pointers!CommandFor(x[2], pointer.eventsMap[x[1]][x[2]], x[1]) :
          h = [id |-> pointer.eventsMap[x[1]][x[2]].id, serial |-> c.serial]
    BY <2>1
  <2>3. x[1] \in PointerEntities
    OBVIOUS
  <2>4. h.serial = c.serial
    BY <2>2
  <2>5. RowsRight(state)
    BY DEF PointerInv, PointersRight
  <2>6. \E i \in DOMAIN state.row[x[1]] : /\ c = state.row[x[1]][i]
          /\ state.previousFrameMax < c.timestamp /\ c.timestamp <= state.currentFrameMax
    BY <2>2, <2>3, <2>5, CommandIsOfFrame
  <2> QED BY <2>3, <2>4, <2>6
<1> HIDE DEF calls, live
<1>3. /\ DOMAIN pointer' = PointerFields /\ pointer'.phase = "renderer"
      /\ pointer'.heard = pointer.heard \cup calls
      /\ pointer'.heardAgain = (pointer.heardAgain \/ pointer.heard \cap calls # {})
      /\ pointer'.calls = pointer.calls /\ pointer'.PointerEvents = pointer.PointerEvents
      /\ pointer'.eventsMap = [e \in PointerEntities |->
            IF e \in gone THEN [t \in Pointers!EventTypes |-> Pointers!NoCallback]
            ELSE pointer.eventsMap[e]]
  <2> HIDE DEF gone
  <2> QED BY <1>1 DEF PointerInv, PointersRight, PointerFields
<1>4. /\ state.previousFrameMax \in Nat /\ state.currentFrameMax \in Nat
      /\ state.previousFrameMax <= state.currentFrameMax
      /\ \A e \in PointerEntities : \A i \in DOMAIN state.row[e] :
           /\ state.row[e][i].timestamp \in Nat /\ state.row[e][i].serial \in Nat
           /\ state.row[e][i].serial <= state.serial
      /\ \A e1, e2 \in PointerEntities : \A i \in DOMAIN state.row[e1], j \in DOMAIN state.row[e2] :
           state.row[e1][i].serial = state.row[e2][j].serial => e1 = e2 /\ i = j
  <2>1. RowsRight(state)
    BY DEF PointerInv, PointersRight
  <2>2. \A e \in PointerEntities : \A i \in DOMAIN state.row[e] : state.row[e][i] \in AnyCommand
    BY <2>1 DEF RowsRight, RowIsRight
  <2>3. \A x \in AnyCommand : x.timestamp \in Nat /\ x.serial \in Nat
    BY DEF AnyCommand
  <2> QED BY <2>1, <2>2, <2>3 DEF RowsRight
<1>5. pointer.heard \cap calls = {}
  <2>1. SUFFICES ASSUME NEW h \in pointer.heard, h \in calls PROVE FALSE
    OBVIOUS
  <2>2. PICK e \in PointerEntities : \E i \in DOMAIN state.row[e] :
               /\ h.serial = state.row[e][i].serial
               /\ state.previousFrameMax < state.row[e][i].timestamp
    BY <1>2, <2>1
  <2>3. PICK i \in DOMAIN state.row[e] :
               /\ h.serial = state.row[e][i].serial
               /\ state.previousFrameMax < state.row[e][i].timestamp
    BY <2>2
  <2>4. state.row[e][i].timestamp <= state.previousFrameMax
    BY <1>1, <2>1, <2>3 DEF PointerInv, PointersRight, HeardIsPast
  <2> QED BY <1>4, <2>3, <2>4
<1>6. pointer'.heardAgain = FALSE
  BY <1>3, <1>5 DEF PointerInv, PointersRight
<1>7. ASSUME NEW h \in pointer'.heard
      PROVE  /\ h.serial \in Nat /\ h.serial <= state.serial
             /\ \A e \in PointerEntities : \A i \in DOMAIN state.row[e] :
                  state.row[e][i].serial = h.serial =>
                    state.row[e][i].timestamp <= state.currentFrameMax
  <2>1. CASE h \in pointer.heard
    <3>1. \A e \in PointerEntities : \A i \in DOMAIN state.row[e] :
                  state.row[e][i].serial = h.serial =>
                    state.row[e][i].timestamp <= state.previousFrameMax
      BY <1>1, <2>1 DEF PointerInv, PointersRight, HeardIsPast
    <3>2. h.serial \in Nat /\ h.serial <= state.serial
      BY <2>1 DEF PointerInv, PointersRight, HeardIsPast
    <3> QED BY <1>4, <3>1, <3>2
  <2>2. CASE h \in calls
    <3>1. PICK e \in PointerEntities : \E i \in DOMAIN state.row[e] :
               /\ h.serial = state.row[e][i].serial
               /\ state.row[e][i].timestamp <= state.currentFrameMax
      BY <1>2, <2>2
    <3> QED BY <1>4, <3>1
  <2> QED BY <1>3, <2>1, <2>2
<1>8. HeardIsPast(state', pointer')
  BY <1>1, <1>3, <1>7 DEF HeardIsPast
<1>9. AllAnnounced(pointer', entityState')
  <2>1. ASSUME NEW e \in PointerEntities, NEW t \in Pointers!EventTypes,
               pointer'.eventsMap[e][t] # Pointers!NoCallback
        PROVE  /\ pointer'.eventsMap[e][t] = pointer.eventsMap[e][t]
               /\ pointer'.PointerEvents[e] = pointer.PointerEvents[e]
               /\ entityState'[e] = "used" => entityState[e] = "used"
    BY <1>1, <1>3, <2>1
  <2>2. AllAnnounced(pointer, entityState)
    BY DEF PointerInv, PointersRight
  <2>3. ASSUME NEW e \in PointerEntities, NEW t \in Pointers!EventTypes,
               pointer'.eventsMap[e][t] # Pointers!NoCallback
        PROVE  /\ Registered(t, pointer'.eventsMap[e][t])
               /\ entityState'[e] = "used" /\ Pointers!Alone(t, pointer'.eventsMap[e][t].button)
                    => \E x \in pointer'.PointerEvents[e] :
                         x.state = Pointers!getPointerEvent(t)
                         /\ x.button = pointer'.eventsMap[e][t].button
    <3>1. pointer.eventsMap[e][t] # Pointers!NoCallback
      BY <2>1, <2>3
    <3>2. /\ Registered(t, pointer.eventsMap[e][t])
          /\ entityState[e] = "used" /\ Pointers!Alone(t, pointer.eventsMap[e][t].button)
               => \E x \in pointer.PointerEvents[e] :
                    x.state = Pointers!getPointerEvent(t) /\ x.button = pointer.eventsMap[e][t].button
      BY <2>2, <3>1, Zenon DEF AllAnnounced
    <3> QED BY <2>1, <2>3, <3>2
  <2> QED BY <2>3, Zenon DEF AllAnnounced
<1>10. /\ DOMAIN pointer'.eventsMap = PointerEntities /\ DOMAIN pointer'.PointerEvents = PointerEntities
       /\ DOMAIN entityState' = PointerEntities
       /\ \A e \in PointerEntities : DOMAIN pointer'.eventsMap[e] = Pointers!EventTypes
  BY <1>1, <1>3 DEF PointerInv, PointersRight
<1> QED BY <1>1, <1>3, <1>6, <1>7, <1>8, <1>9, <1>10 DEF PointerInv, PointersRight

(* A frame begins: what was heard is past.                                 *)
LEMMA FrameBegins ==
  ASSUME PointerInv, Pointers!InputStep
  PROVE  PointerInv'
<1> DEFINE S == {e \in PointerEntities : state.row[e] # <<>>}
<1>1. PICK order \in Pointers!Injection(1 .. Pointers!Cardinality(S), S) :
        state' = [Pointers!buttonStateUpdateSystem(state, [i \in DOMAIN order |-> state.row[order[i]]])
                    EXCEPT !.frame = Pointers!NewCommands(state.row), !.frameTo = state.clock]
  BY DEF Pointers!InputStep, Pointers!InputFrame
<1> DEFINE v == Pointers!buttonStateUpdateSystem(state, [i \in DOMAIN order |-> state.row[order[i]]])
<1>2. Pointers!NewCommands(state.row) = NewIn(state)
  <2>1. \A s : Pointers!Range(s) = ToSet(s)
    BY DEF Pointers!Range, ToSet
  <2> QED BY <2>1 DEF Pointers!NewCommands, NewIn
<1>3. RowsRight(state)
  BY DEF PointerInv, PointersRight
<1>4. /\ DOMAIN v = DigestFields
      /\ \A f \in DigestFields \ (RowDigests \cup {"previousFrameMax"}) : v[f] = state[f]
      /\ v.previousFrameMax = state.currentFrameMax
      /\ v.currentFrameMax \in Nat /\ state.currentFrameMax <= v.currentFrameMax
      /\ v.currentFrameMax <= state.clock
      /\ ButtonsRight(v) /\ \A b \in Buttons : v.buttonState[b].timestamp <= state.clock
      /\ \A c \in NewIn(state) : Noticed(v, c) \/ Behind(c, NewIn(state))
  BY <1>3, FrameIsDigested
<1>5. state' = [v EXCEPT !.frame = NewIn(state), !.frameTo = state.clock]
  BY <1>1, <1>2
<1> HIDE DEF v
<1>6. /\ DOMAIN state' = DigestFields /\ state'.frame = NewIn(state) /\ state'.frameTo = state.clock
      /\ \A f \in DigestFields \ {"frame", "frameTo"} : state'[f] = v[f]
  BY <1>4, <1>5 DEF DigestFields
<1>7. /\ state'.row = state.row /\ state'.clock = state.clock /\ state'.serial = state.serial
      /\ state'.previousFrameMax = state.currentFrameMax
      /\ state'.currentFrameMax = v.currentFrameMax /\ state'.buttonState = v.buttonState
      /\ state'.thisFrameCommands = v.thisFrameCommands
  BY <1>4, <1>6 DEF DigestFields, RowDigests
<1>8. RowsRight(state')
  <2>1. ButtonsRight(state') /\ \A b \in Buttons : state'.buttonState[b].timestamp <= state'.frameTo
    BY <1>4, <1>6, <1>7 DEF ButtonsRight
  <2>2. /\ state'.previousFrameMax \in Nat /\ state'.currentFrameMax \in Nat
        /\ state'.previousFrameMax <= state'.currentFrameMax /\ state'.currentFrameMax <= state'.frameTo
        /\ state'.frameTo \in Nat /\ state'.frameTo <= state'.clock
    BY <1>3, <1>4, <1>6, <1>7 DEF RowsRight
  <2> QED BY <1>3, <1>6, <1>7, <2>1, <2>2 DEF RowsRight
<1>9. \A c \in state'.frame : Noticed(state', c) \/ Behind(c, state'.frame)
  BY <1>4, <1>6, <1>7 DEF Noticed
<1>10. pointer.phase = "renderer" /\ pointer' = [pointer EXCEPT !.phase = "systems"]
       /\ entityState' = entityState
  BY DEF Pointers!InputStep
<1>11. /\ DOMAIN pointer' = PointerFields /\ pointer'.phase = "systems"
       /\ \A f \in PointerFields \ {"phase"} : pointer'[f] = pointer[f]
  BY <1>10 DEF PointerInv, PointersRight, PointerFields
<1>12. /\ pointer'.heard = pointer.heard /\ pointer'.heardAgain = pointer.heardAgain
       /\ pointer'.calls = pointer.calls /\ pointer'.eventsMap = pointer.eventsMap
       /\ pointer'.PointerEvents = pointer.PointerEvents
  BY <1>11 DEF PointerFields
<1>13. HeardIsPast(state', pointer')
  BY <1>7, <1>10, <1>11, <1>12 DEF HeardIsPast, PointerInv, PointersRight
<1>14. AllAnnounced(pointer', entityState')
  BY <1>10, <1>12 DEF AllAnnounced, PointerInv, PointersRight
<1> QED BY <1>8, <1>9, <1>10, <1>11, <1>12, <1>13, <1>14 DEF PointerInv, PointersRight

(* The renderer sends a command.                                           *)
LEMMA RendererSends ==
  ASSUME PointerInv, NEW e \in PointerEntities, NEW b \in Buttons, NEW st \in PointerStates,
         NEW later \in BOOLEAN, Pointers!RendererStep(e, b, st, later)
  PROVE  PointerInv'
<1> DEFINE t == IF later \/ state.clock = state.frameTo THEN state.clock + 1 ELSE state.clock
           c == [entity |-> e, button |-> b, state |-> st, timestamp |-> t, serial |-> state.serial + 1]
<1>1. state' = [state EXCEPT !.row[e] = Append(@, c), !.clock = t, !.serial = @ + 1]
      /\ pointer' = pointer /\ entityState' = entityState
  BY DEF Pointers!RendererStep, Pointers!RendererCommand
<1>2. RowsRight(state)
  BY DEF PointerInv, PointersRight
<1>3. t \in {state.clock, state.clock + 1} /\ t \in Nat /\ state.serial \in Nat
  BY <1>2 DEF RowsRight
<1> HIDE DEF t
<1>4. c \in AnyCommand /\ c.serial = state.serial + 1 /\ c.timestamp = t
  BY <1>3 DEF AnyCommand
<1> HIDE DEF c
<1>5. state' = [state EXCEPT !.row[e] = Append(@, c), !.clock = c.timestamp, !.serial = @ + 1]
  BY <1>1, <1>4
<1>6. /\ RowsRight(state')
      /\ \A f \in DigestFields \ {"row", "clock", "serial"} : state'[f] = state[f]
      /\ state'.serial = state.serial + 1
      /\ \A d \in PointerEntities : \A i \in DOMAIN state'.row[d] :
           \/ i \in DOMAIN state.row[d] /\ state'.row[d][i] = state.row[d][i]
           \/ state'.row[d][i].serial = state'.serial
  <2>1. c.timestamp \in {state.clock, state.clock + 1}
    BY <1>3, <1>4
  <2>2. c \in AnyCommand /\ c.serial = state.serial + 1
    BY <1>4
  <2>3. /\ DOMAIN state' = DigestFields
        /\ \A f \in DigestFields \ {"row", "clock", "serial"} : state'[f] = state[f]
        /\ state'.serial = state.serial + 1 /\ state'.clock = c.timestamp
        /\ state'.row = [state.row EXCEPT ![e] = Append(state.row[e], c)]
    BY <1>2, <1>5 DEF RowsRight, DigestFields
  <2>4. /\ RowsRight(state')
        /\ \A d \in PointerEntities : \A i \in DOMAIN state'.row[d] :
             \/ i \in DOMAIN state.row[d] /\ state'.row[d][i] = state.row[d][i]
             \/ state'.row[d][i].serial = state'.serial
    BY <1>2, <2>1, <2>2, <2>3, CommandKeepsRows, SMTT(20)
  <2> QED BY <2>3, <2>4
<1>7. /\ state'.frame = state.frame /\ state'.thisFrameCommands = state.thisFrameCommands
      /\ state'.buttonState = state.buttonState
      /\ state'.previousFrameMax = state.previousFrameMax
      /\ state'.currentFrameMax = state.currentFrameMax
  BY <1>6 DEF DigestFields
<1>8. \A x \in state'.frame : Noticed(state', x) \/ Behind(x, state'.frame)
  BY <1>7 DEF PointerInv, PointersRight, Noticed
<1>9. HeardIsPast(state', pointer')
  <2>1. \A h \in pointer.heard : h.serial \in Nat /\ h.serial <= state.serial
    BY DEF PointerInv, PointersRight, HeardIsPast
  <2>2. \A h \in pointer.heard : h.serial # state'.serial /\ h.serial <= state'.serial
    BY <1>3, <1>6, <2>1
  <2> QED BY <1>1, <1>6, <1>7, <2>2 DEF HeardIsPast, PointerInv, PointersRight
<1> QED BY <1>1, <1>6, <1>8, <1>9 DEF PointerInv, PointersRight

(* An entity is removed, with its row.                                     *)
LEMMA EntityIsRemoved ==
  ASSUME PointerInv, NEW e \in PointerEntities, Pointers!RemoveEntity(e)
  PROVE  PointerInv'
<1>1. /\ entityState' = [entityState EXCEPT ![e] = "removing"]
      /\ pointer' = [pointer EXCEPT !.PointerEvents[e] = {}]
      /\ state' = [state EXCEPT !.row[e] = <<>>]
  BY DEF Pointers!RemoveEntity
<1>2. RowsRight(state)
  BY DEF PointerInv, PointersRight
<1>3. /\ RowsRight(state') /\ \A f \in DigestFields \ {"row"} : state'[f] = state[f]
      /\ \A d \in PointerEntities : \A i \in DOMAIN state'.row[d] :
           i \in DOMAIN state.row[d] /\ state'.row[d][i] = state.row[d][i]
  BY <1>1, <1>2, RemovalKeepsRows
<1>4. /\ state'.frame = state.frame /\ state'.thisFrameCommands = state.thisFrameCommands
      /\ state'.buttonState = state.buttonState
      /\ state'.previousFrameMax = state.previousFrameMax /\ state'.serial = state.serial
      /\ state'.currentFrameMax = state.currentFrameMax
  BY <1>3 DEF DigestFields
<1>5. \A x \in state'.frame : Noticed(state', x) \/ Behind(x, state'.frame)
  BY <1>4 DEF PointerInv, PointersRight, Noticed
<1>6. /\ DOMAIN pointer' = PointerFields
      /\ \A f \in PointerFields \ {"PointerEvents"} : pointer'[f] = pointer[f]
      /\ pointer'.PointerEvents = [pointer.PointerEvents EXCEPT ![e] = {}]
  BY <1>1 DEF PointerInv, PointersRight, PointerFields
<1>7. /\ pointer'.heard = pointer.heard /\ pointer'.heardAgain = pointer.heardAgain
      /\ pointer'.calls = pointer.calls /\ pointer'.eventsMap = pointer.eventsMap
      /\ pointer'.phase = pointer.phase
  BY <1>6 DEF PointerFields
<1>8. HeardIsPast(state', pointer')
  BY <1>3, <1>4, <1>7 DEF HeardIsPast, PointerInv, PointersRight
<1>9. /\ DOMAIN pointer'.PointerEvents = PointerEntities /\ DOMAIN entityState' = PointerEntities
      /\ entityState'[e] = "removing"
      /\ \A d \in PointerEntities : d # e => pointer'.PointerEvents[d] = pointer.PointerEvents[d]
                                             /\ entityState'[d] = entityState[d]
  BY <1>1, <1>6 DEF PointerInv, PointersRight
<1>10. AllAnnounced(pointer', entityState')
  BY <1>7, <1>9 DEF AllAnnounced, PointerInv, PointersRight
<1> QED BY <1>3, <1>5, <1>6, <1>7, <1>8, <1>9, <1>10 DEF PointerInv, PointersRight

(* What a scene's call writes: the callback of one type of an entity and   *)
(* the entry announcing it; entries that others need stay.                 *)
LEMMA CallKeepsPointers ==
  ASSUME PointerInv, NEW e \in PointerEntities, NEW t \in Pointers!EventTypes,
         NEW q, state' = state, entityState' = entityState, pointer' = q,
         DOMAIN q = PointerFields, q.calls \in Nat,
         q.phase = pointer.phase, q.heard = pointer.heard, q.heardAgain = pointer.heardAgain,
         DOMAIN q.eventsMap = PointerEntities, DOMAIN q.PointerEvents = PointerEntities,
         DOMAIN q.eventsMap[e] = Pointers!EventTypes,
         \A d \in PointerEntities : d # e => q.eventsMap[d] = pointer.eventsMap[d]
                                             /\ q.PointerEvents[d] = pointer.PointerEvents[d],
         \A x \in Pointers!EventTypes : x # t => q.eventsMap[e][x] = pointer.eventsMap[e][x],
         \A x \in pointer.PointerEvents[e] :
           \/ x \in q.PointerEvents[e]
           \/ /\ x.state = Pointers!getPointerEvent(t)
              /\ pointer.eventsMap[e][t] # Pointers!NoCallback
              /\ x.button = pointer.eventsMap[e][t].button,
         q.eventsMap[e][t] # Pointers!NoCallback =>
           /\ Registered(t, q.eventsMap[e][t])
           /\ \E x \in q.PointerEvents[e] :
                x.state = Pointers!getPointerEvent(t) /\ x.button = q.eventsMap[e][t].button
  PROVE  PointerInv'
<1>1. AllAnnounced(pointer, entityState)
  BY DEF PointerInv, PointersRight
<1>2. ASSUME NEW x \in Pointers!EventTypes, x # t, pointer.eventsMap[e][x] # Pointers!NoCallback,
             entityState[e] = "used", Pointers!Alone(x, pointer.eventsMap[e][x].button)
      PROVE  \E y \in q.PointerEvents[e] :
               y.state = Pointers!getPointerEvent(x) /\ y.button = pointer.eventsMap[e][x].button
  <2>1. PICK y \in pointer.PointerEvents[e] :
          y.state = Pointers!getPointerEvent(x) /\ y.button = pointer.eventsMap[e][x].button
    BY <1>1, <1>2, Zenon DEF AllAnnounced
  <2>2. ASSUME y.state = Pointers!getPointerEvent(t), pointer.eventsMap[e][t] # Pointers!NoCallback,
               y.button = pointer.eventsMap[e][t].button
        PROVE  FALSE
    <3>1. Registered(t, pointer.eventsMap[e][t])
      BY <1>1, <2>2, Zenon DEF AllAnnounced
    <3>2. PICK f \in Registrations : \E opts \in PointerOptions[f] :
            Pointers!TypeOf[f] = t /\ pointer.eventsMap[e][t].button = opts.button
      BY <3>1, Zenon DEF Registered
    <3>3. PICK opts \in PointerOptions[f] :
            Pointers!TypeOf[f] = t /\ pointer.eventsMap[e][t].button = opts.button
      BY <3>2
    <3>4. opts.button # pointer.eventsMap[e][x].button
      BY <1>2, <2>1, <2>2, <3>3, Zenon DEF Pointers!Alone
    <3> QED BY <2>1, <2>2, <3>3, <3>4
  <2> QED BY <2>1, <2>2
<1>3. ASSUME NEW d \in PointerEntities, NEW x \in Pointers!EventTypes,
             q.eventsMap[d][x] # Pointers!NoCallback
      PROVE  /\ Registered(x, q.eventsMap[d][x])
             /\ entityState[d] = "used" /\ Pointers!Alone(x, q.eventsMap[d][x].button)
                  => \E y \in q.PointerEvents[d] :
                       y.state = Pointers!getPointerEvent(x) /\ y.button = q.eventsMap[d][x].button
  <2>1. CASE d # e
    <3>1. q.eventsMap[d] = pointer.eventsMap[d] /\ q.PointerEvents[d] = pointer.PointerEvents[d]
      BY <2>1
    <3>2. pointer.eventsMap[d][x] # Pointers!NoCallback
      BY <1>3, <3>1
    <3>3. /\ Registered(x, pointer.eventsMap[d][x])
          /\ entityState[d] = "used" /\ Pointers!Alone(x, pointer.eventsMap[d][x].button)
               => \E y \in pointer.PointerEvents[d] :
                    y.state = Pointers!getPointerEvent(x) /\ y.button = pointer.eventsMap[d][x].button
      BY <1>1, <3>2, Zenon DEF AllAnnounced
    <3> QED BY <3>1, <3>3
  <2>2. CASE d = e /\ x # t
    <3>1. q.eventsMap[e][x] = pointer.eventsMap[e][x] /\ pointer.eventsMap[e][x] # Pointers!NoCallback
      BY <1>3, <2>2
    <3>2. Registered(x, pointer.eventsMap[e][x])
      BY <1>1, <3>1, Zenon DEF AllAnnounced
    <3> QED BY <1>2, <2>2, <3>1, <3>2
  <2>3. CASE d = e /\ x = t
    BY <1>3, <2>3
  <2> QED BY <2>1, <2>2, <2>3
<1>4. AllAnnounced(pointer', entityState')
  BY <1>3, Zenon DEF AllAnnounced
<1>5. \A d \in PointerEntities : DOMAIN q.eventsMap[d] = Pointers!EventTypes
  BY DEF PointerInv, PointersRight
<1>6. HeardIsPast(state', pointer')
  BY DEF HeardIsPast, PointerInv, PointersRight
<1> QED BY <1>4, <1>5, <1>6 DEF PointerInv, PointersRight

(* removeEvent on the record.                                              *)
LEMMA EventIsRemoved ==
  ASSUME PointerInv, NEW e \in PointerEntities, NEW t \in Pointers!EventTypes,
         NEW q, q = Pointers!removeEvent(pointer, e, t)
  PROVE  /\ DOMAIN q = PointerFields
         /\ q.calls = pointer.calls /\ q.phase = pointer.phase /\ q.heard = pointer.heard
         /\ q.heardAgain = pointer.heardAgain
         /\ q.eventsMap = [pointer.eventsMap EXCEPT ![e][t] = Pointers!NoCallback]
         /\ DOMAIN q.PointerEvents = PointerEntities
         /\ \A d \in PointerEntities : d # e => q.PointerEvents[d] = pointer.PointerEvents[d]
         /\ \A x \in pointer.PointerEvents[e] :
              \/ x \in q.PointerEvents[e]
              \/ /\ x.state = Pointers!getPointerEvent(t)
                 /\ pointer.eventsMap[e][t] # Pointers!NoCallback
                 /\ x.button = pointer.eventsMap[e][t].button
<1> DEFINE old == pointer.eventsMap[e][t]
           kept == [pointer EXCEPT !.eventsMap[e][t] = Pointers!NoCallback]
           entry == [state |-> Pointers!getPointerEvent(t), button |-> old.button,
                     interaction |-> "cursor"]
<1>1. DOMAIN pointer = PointerFields /\ DOMAIN pointer.PointerEvents = PointerEntities
  BY DEF PointerInv, PointersRight
<1>2. /\ DOMAIN kept = PointerFields
      /\ kept.calls = pointer.calls /\ kept.phase = pointer.phase /\ kept.heard = pointer.heard
      /\ kept.heardAgain = pointer.heardAgain /\ kept.PointerEvents = pointer.PointerEvents
      /\ kept.eventsMap = [pointer.eventsMap EXCEPT ![e][t] = Pointers!NoCallback]
  BY <1>1 DEF PointerFields
<1>3. \/ q = kept
      \/ /\ old # Pointers!NoCallback
         /\ q = [kept EXCEPT !.PointerEvents[e] = @ \ {entry}]
  BY DEF Pointers!removeEvent, Pointers!removePointerEvent
<1> HIDE DEF kept
<1>4. CASE q = kept
  BY <1>1, <1>2, <1>4
<1>5. CASE old # Pointers!NoCallback /\ q = [kept EXCEPT !.PointerEvents[e] = @ \ {entry}]
  <2>1. /\ DOMAIN q = PointerFields
        /\ q.calls = kept.calls /\ q.phase = kept.phase /\ q.heard = kept.heard
        /\ q.heardAgain = kept.heardAgain /\ q.eventsMap = kept.eventsMap
        /\ q.PointerEvents = [kept.PointerEvents EXCEPT ![e] = @ \ {entry}]
    <3> HIDE DEF entry
    <3> QED BY <1>2, <1>5 DEF PointerFields
  <2>2. /\ DOMAIN q.PointerEvents = PointerEntities
        /\ q.PointerEvents[e] = pointer.PointerEvents[e] \ {entry}
        /\ \A d \in PointerEntities : d # e => q.PointerEvents[d] = pointer.PointerEvents[d]
    <3> HIDE DEF entry
    <3> QED BY <1>1, <1>2, <2>1
  <2>3. entry.state = Pointers!getPointerEvent(t) /\ entry.button = old.button
    OBVIOUS
  <2> HIDE DEF entry
  <2> QED BY <1>2, <1>5, <2>1, <2>2, <2>3
<1> QED BY <1>3, <1>4, <1>5

(* The scene takes a callback away.                                        *)
LEMMA CallbackIsRemoved ==
  ASSUME PointerInv, NEW e \in PointerEntities, NEW f \in Registrations,
         Pointers!removeOnPointer(f, e)
  PROVE  PointerInv'
<1> DEFINE t == Pointers!TypeOf[f]
           r == Pointers!removeEvent(pointer, e, t)
<1>1. t \in Pointers!EventTypes
  BY CoreAssumption DEF Pointers!PointerAssumption, Pointers!EventTypes, Pointers!TypeOf
<1>2. /\ state' = state /\ entityState' = entityState
      /\ pointer' = [r EXCEPT !.calls = @ + 1]
  BY DEF Pointers!removeOnPointer
<1> HIDE DEF t
<1>3. /\ DOMAIN r = PointerFields
      /\ r.calls = pointer.calls /\ r.phase = pointer.phase /\ r.heard = pointer.heard
      /\ r.heardAgain = pointer.heardAgain
      /\ r.eventsMap = [pointer.eventsMap EXCEPT ![e][t] = Pointers!NoCallback]
      /\ DOMAIN r.PointerEvents = PointerEntities
      /\ \A d \in PointerEntities : d # e => r.PointerEvents[d] = pointer.PointerEvents[d]
      /\ \A x \in pointer.PointerEvents[e] :
           \/ x \in r.PointerEvents[e]
           \/ /\ x.state = Pointers!getPointerEvent(t)
              /\ pointer.eventsMap[e][t] # Pointers!NoCallback
              /\ x.button = pointer.eventsMap[e][t].button
  BY <1>1, EventIsRemoved
<1> HIDE DEF r
<1> DEFINE q == [r EXCEPT !.calls = @ + 1]
<1>4. /\ DOMAIN q = PointerFields /\ q.calls = pointer.calls + 1
      /\ q.phase = r.phase /\ q.heard = r.heard /\ q.heardAgain = r.heardAgain
      /\ q.eventsMap = r.eventsMap /\ q.PointerEvents = r.PointerEvents
  BY <1>3 DEF PointerFields
<1>5. pointer' = q
  BY <1>2
<1> HIDE DEF q
<1>6. /\ DOMAIN pointer.eventsMap = PointerEntities /\ pointer.calls \in Nat
      /\ DOMAIN pointer.eventsMap[e] = Pointers!EventTypes
  BY DEF PointerInv, PointersRight
<1>7. /\ DOMAIN q.eventsMap = PointerEntities /\ DOMAIN q.eventsMap[e] = Pointers!EventTypes
      /\ q.calls \in Nat /\ q.eventsMap[e][t] = Pointers!NoCallback
      /\ \A d \in PointerEntities : d # e => q.eventsMap[d] = pointer.eventsMap[d]
      /\ \A x \in Pointers!EventTypes : x # t => q.eventsMap[e][x] = pointer.eventsMap[e][x]
  BY <1>1, <1>3, <1>4, <1>6
<1>8. \A x \in pointer.PointerEvents[e] :
        \/ x \in q.PointerEvents[e]
        \/ /\ x.state = Pointers!getPointerEvent(t)
           /\ pointer.eventsMap[e][t] # Pointers!NoCallback
           /\ x.button = pointer.eventsMap[e][t].button
  BY <1>3, <1>4
<1>9. /\ \A d \in PointerEntities : d # e => q.PointerEvents[d] = pointer.PointerEvents[d]
      /\ DOMAIN q.PointerEvents = PointerEntities
      /\ q.phase = pointer.phase /\ q.heard = pointer.heard /\ q.heardAgain = pointer.heardAgain
  BY <1>3, <1>4
<1> QED BY <1>1, <1>2, <1>4, <1>5, <1>7, <1>8, <1>9, CallKeepsPointers

(* The scene sets a callback.                                              *)
LEMMA CallbackIsSet ==
  ASSUME PointerInv, NEW e \in PointerEntities, NEW f \in Registrations,
         NEW opts \in PointerOptions[f], Pointers!onPointer(f, e, opts)
  PROVE  PointerInv'
<1> DEFINE t == Pointers!TypeOf[f]
           r == Pointers!removeEvent(pointer, e, t)
           callback == [id |-> pointer.calls + 1, button |-> opts.button,
                        hoverText |-> opts.hoverText]
           entry == [state |-> Pointers!getPointerEvent(t), button |-> opts.button,
                     interaction |-> Pointers!Interaction(f)]
<1>1. t \in Pointers!EventTypes
  BY CoreAssumption DEF Pointers!PointerAssumption, Pointers!EventTypes, Pointers!TypeOf
<1>2. /\ state' = state /\ entityState' = entityState
      /\ pointer' = [[r EXCEPT !.calls = @ + 1, !.eventsMap[e][t] = callback]
                        EXCEPT !.PointerEvents[e] = @ \cup {entry}]
  BY DEF Pointers!onPointer, Pointers!Registered, Pointers!setPointerEvent
<1>10. callback.button = opts.button /\ entry.state = Pointers!getPointerEvent(t)
       /\ entry.button = opts.button
  OBVIOUS
<1>11. Registered(t, callback)
  BY <1>10 DEF Registered
<1> HIDE DEF t, callback, entry
<1>3. /\ DOMAIN r = PointerFields
      /\ r.calls = pointer.calls /\ r.phase = pointer.phase /\ r.heard = pointer.heard
      /\ r.heardAgain = pointer.heardAgain
      /\ r.eventsMap = [pointer.eventsMap EXCEPT ![e][t] = Pointers!NoCallback]
      /\ DOMAIN r.PointerEvents = PointerEntities
      /\ \A d \in PointerEntities : d # e => r.PointerEvents[d] = pointer.PointerEvents[d]
      /\ \A x \in pointer.PointerEvents[e] :
           \/ x \in r.PointerEvents[e]
           \/ /\ x.state = Pointers!getPointerEvent(t)
              /\ pointer.eventsMap[e][t] # Pointers!NoCallback
              /\ x.button = pointer.eventsMap[e][t].button
  BY <1>1, EventIsRemoved
<1> HIDE DEF r
<1> DEFINE p == [r EXCEPT !.calls = @ + 1, !.eventsMap[e][t] = callback]
           q == [p EXCEPT !.PointerEvents[e] = @ \cup {entry}]
<1>4. /\ DOMAIN p = PointerFields /\ p.calls = pointer.calls + 1
      /\ p.phase = r.phase /\ p.heard = r.heard /\ p.heardAgain = r.heardAgain
      /\ p.eventsMap = [r.eventsMap EXCEPT ![e][t] = callback] /\ p.PointerEvents = r.PointerEvents
  BY <1>3 DEF PointerFields
<1>5. pointer' = q
  BY <1>2
<1> HIDE DEF p
<1>6. /\ DOMAIN q = PointerFields /\ q.calls = pointer.calls + 1
      /\ q.phase = p.phase /\ q.heard = p.heard /\ q.heardAgain = p.heardAgain
      /\ q.eventsMap = p.eventsMap
      /\ q.PointerEvents = [p.PointerEvents EXCEPT ![e] = @ \cup {entry}]
  BY <1>4 DEF PointerFields
<1> HIDE DEF q
<1>7. /\ DOMAIN pointer.eventsMap = PointerEntities /\ pointer.calls \in Nat
      /\ DOMAIN pointer.eventsMap[e] = Pointers!EventTypes
  BY DEF PointerInv, PointersRight
<1>8. /\ DOMAIN q.eventsMap = PointerEntities /\ DOMAIN q.eventsMap[e] = Pointers!EventTypes
      /\ q.calls \in Nat /\ q.eventsMap[e][t] = callback
      /\ \A d \in PointerEntities : d # e => q.eventsMap[d] = pointer.eventsMap[d]
      /\ \A x \in Pointers!EventTypes : x # t => q.eventsMap[e][x] = pointer.eventsMap[e][x]
  BY <1>1, <1>3, <1>4, <1>6, <1>7
<1>9. /\ DOMAIN q.PointerEvents = PointerEntities
      /\ q.PointerEvents[e] = r.PointerEvents[e] \cup {entry}
      /\ \A d \in PointerEntities : d # e => q.PointerEvents[d] = pointer.PointerEvents[d]
      /\ q.phase = pointer.phase /\ q.heard = pointer.heard /\ q.heardAgain = pointer.heardAgain
  BY <1>3, <1>4, <1>6
<1>12. \A x \in pointer.PointerEvents[e] :
        \/ x \in q.PointerEvents[e]
        \/ /\ x.state = Pointers!getPointerEvent(t)
           /\ pointer.eventsMap[e][t] # Pointers!NoCallback
           /\ x.button = pointer.eventsMap[e][t].button
  BY <1>3, <1>9
<1>13. /\ Registered(t, q.eventsMap[e][t])
       /\ \E x \in q.PointerEvents[e] :
            x.state = Pointers!getPointerEvent(t) /\ x.button = q.eventsMap[e][t].button
  BY <1>8, <1>9, <1>10, <1>11
<1> QED BY <1>1, <1>2, <1>5, <1>6, <1>8, <1>9, <1>12, <1>13, CallKeepsPointers

LEMMA PointerStep ==
  ASSUME PointerInv, Pointers!Next \/ UNCHANGED <<state, pointer, entityState>>
  PROVE  PointerInv'
<1>1. CASE UNCHANGED <<state, pointer, entityState>>
  <2>1. state' = state /\ pointer' = pointer /\ entityState' = entityState
    BY <1>1
  <2> QED BY <2>1, Zenon DEF PointerInv
<1>2. CASE Pointers!Next
  <2>1. CASE Pointers!InputStep
    BY <2>1, FrameBegins
  <2>2. CASE Pointers!PointerEventSystem
    BY <2>2, CallbacksHearOnce
  <2>3. ASSUME NEW e \in PointerEntities, Pointers!RemoveEntity(e) PROVE PointerInv'
    BY <2>3, EntityIsRemoved
  <2>4. ASSUME NEW e \in PointerEntities, NEW f \in Registrations, Pointers!removeOnPointer(f, e)
        PROVE  PointerInv'
    BY <2>4, CallbackIsRemoved
  <2>5. ASSUME NEW e \in PointerEntities, NEW f \in Registrations,
               NEW opts \in PointerOptions[f], Pointers!onPointer(f, e, opts)
        PROVE  PointerInv'
    BY <2>5, CallbackIsSet
  <2>6. ASSUME NEW e \in PointerEntities, NEW b \in Buttons, NEW st \in PointerStates,
               NEW later \in BOOLEAN, Pointers!RendererStep(e, b, st, later)
        PROVE  PointerInv'
    BY <2>6, RendererSends
  <2> QED BY <1>2, <2>1, <2>2, <2>3, <2>4, <2>5, <2>6, Zenon DEF Pointers!Next
<1> QED BY <1>1, <1>2

LEMMA PointersHearOnce ==
  ASSUME PointerInv
  PROVE  /\ Pointers!HeardAtMostOnce /\ Pointers!CallbackIsAnnounced
         /\ Pointers!LostOnlyBehindQuickPress
<1>1. Pointers!HeardAtMostOnce
  BY DEF PointerInv, PointersRight, Pointers!HeardAtMostOnce
<1>2. Pointers!CallbackIsAnnounced
  <2>1. AllAnnounced(pointer, entityState)
    BY DEF PointerInv, PointersRight
  <2> QED BY <2>1, Zenon DEF AllAnnounced, Pointers!CallbackIsAnnounced
<1>3. Pointers!LostOnlyBehindQuickPress
  <2>1. \A c \in state.frame : Noticed(state, c) \/ Behind(c, state.frame)
    BY DEF PointerInv, PointersRight
  <2> QED BY <2>1, Zenon DEF Noticed, Behind, Pointers!LostOnlyBehindQuickPress,
                             Pointers!BehindQuickPress
<1> QED BY <1>1, <1>2, <1>3
-----------------------------------------------------------------------------
(* What the features have in common.                                       *)
(* The inductive invariant of the features whose writes are followed.      *)
WritesInv ==
  /\ feature = "materials" => Faithful(state)
  /\ feature = "registry"  => Handled(state)
  /\ feature = "bus"       => Ordered(state)
  /\ feature = "inputs"    => Echoing(state)
  /\ feature = "forces"    => ForceInv

(* Whatever the scene, the other players and the renderer do: the renderer *)
(* has every material that the next tick does not send, accessors read what*)
(* their component holds; every handle of a component is sent; messages    *)
(* leave in the order they were emitted, each once, one send at a time;    *)
(* what the user types stays on the screen of a scene that echoes it; and  *)
(* the player feels every impulse.                                         *)
THEOREM EveryWriteIsSent == CoreSpec => []WritesAreSent
<1>1. CoreInit => WritesInv
  <2>1. Materials!Init => Faithful(state)
    BY MaterialsAreTyped DEF Materials!Init, Faithful, MaterialsTyped, MaterialFields, Apart,
                             Materials!ValueOf
  <2>2. Registry!Init => Handled(state)
    BY DEF Registry!Init, Handled, RegistryFields
  <2>3. Bus!Init => Ordered(state)
    BY DEF Bus!Init, Bus!BusInit, Ordered, InOrder, BusFields
  <2>4. Inputs!Init => Echoing(state)
    BY DEF Inputs!Init, Inputs!InputFieldInit, Echoing, InputFields
  <2> QED BY <2>1, <2>2, <2>3, <2>4, ForceStarts DEF CoreInit, WritesInv
<1>2. WritesInv /\ [CoreNext]_coreVars => WritesInv'
  <2> SUFFICES ASSUME WritesInv, [CoreNext]_coreVars
               PROVE  WritesInv'
    OBVIOUS
  <2>1. feature' = feature
    BY FeatureStays
  <2>2. ASSUME feature = "materials" PROVE Faithful(state')
    BY <2>2, MaterialStep DEF WritesInv, CoreNext, coreVars
  <2>3. ASSUME feature = "registry" PROVE Handled(state')
    BY <2>3, RegistryStep DEF WritesInv, CoreNext, coreVars
  <2>4. ASSUME feature = "bus" PROVE Ordered(state')
    BY <2>4, BusStep DEF WritesInv, CoreNext, coreVars
  <2>5. ASSUME feature = "inputs" PROVE Echoing(state')
    BY <2>5, InputStep DEF WritesInv, CoreNext, coreVars
  <2>6. ASSUME feature = "forces" PROVE ForceInv'
    BY <2>6, ForceStep DEF WritesInv, CoreNext, coreVars
  <2> QED BY <2>1, <2>2, <2>3, <2>4, <2>5, <2>6 DEF WritesInv
<1>3. WritesInv => WritesAreSent
  <2>1. Faithful(state) => Materials!RendererHasWhatIsClean /\ Materials!AccessorReadsComponent
    BY DEF Faithful, Materials!RendererHasWhatIsClean, Materials!AccessorReadsComponent,
           Materials!getFlat
  <2>2. Handled(state) => Registry!EveryHandleIsSent
    BY DEF Handled, Registry!EveryHandleIsSent
  <2>3. Echoing(state) => Inputs!TypingIsNotOverwritten
    BY DEF Echoing, Inputs!TypingIsNotOverwritten
  <2> QED BY <2>1, <2>2, <2>3, OrderedIsInOrder, ForceIsTrue
         DEF WritesInv, WritesAreSent
<1> QED BY <1>1, <1>2, <1>3, PTL DEF CoreSpec

MemoryInv ==
  /\ feature = "triggers"  => TrueAreas
  /\ feature = "events"    => EventInv
  /\ feature = "uiSystems" => UiInv
  /\ feature = "forces"    => ForceInv

(* Whatever the renderer reports and the scene calls, in whatever order:   *)
(* who is believed inside a trigger area is inside once its row is         *)
(* consumed; the players known are those in the scene; the scale of the UI *)
(* is that of a live UI, and fits it after three ticks without a change;   *)
(* and the force on the player is the sum of its sources.                  *)
THEOREM WhatIsRememberedIsTrue == CoreSpec => []MemoryIsTrue
<1>1. CoreInit => MemoryInv
  BY AreasStart, EventsStart, UiStarts, ForceStarts DEF CoreInit, MemoryInv
<1>2. MemoryInv /\ [CoreNext]_coreVars => MemoryInv'
  <2> SUFFICES ASSUME MemoryInv, [CoreNext]_coreVars
               PROVE  MemoryInv'
    OBVIOUS
  <2>1. feature' = feature
    BY FeatureStays
  <2>2. ASSUME feature = "triggers" PROVE TrueAreas'
    BY <2>2, TriggerStep DEF MemoryInv, CoreNext, coreVars
  <2>3. ASSUME feature = "events" PROVE EventInv'
    BY <2>3, EventStep DEF MemoryInv, CoreNext, coreVars
  <2>4. ASSUME feature = "uiSystems" PROVE UiInv'
    BY <2>4, UiStep DEF MemoryInv, CoreNext, coreVars
  <2>5. ASSUME feature = "forces" PROVE ForceInv'
    BY <2>5, ForceStep DEF MemoryInv, CoreNext, coreVars
  <2> QED BY <2>1, <2>2, <2>3, <2>4, <2>5 DEF MemoryInv
<1>3. MemoryInv => MemoryIsTrue
  BY TrueAreasKnowInside, EventsAreKnownAndOnce, UiIsScaled, ForceIsTrue DEF MemoryInv, MemoryIsTrue
<1> QED BY <1>1, <1>2, <1>3, PTL DEF CoreSpec

HeardInv ==
  /\ feature = "raycasts"    => RaycastInv
  /\ feature = "pointers"    => PointerInv
  /\ feature = "media"       => MediaInv
  /\ feature = "observables" => ObserverInv
  /\ feature = "events"      => EventInv
  /\ feature = "list"        => ListInv

(* Whatever is registered, removed and registered again, by whom and when, *)
(* also from callbacks: each is told an event once; a pointer callback that*)
(* shares no announcement is announced, and a press is missed only behind a*)
(* quicker one; a system misses a tick, or runs twice in it, only by the   *)
(* removals and additions of the walk.                                     *)
THEOREM EveryEventIsHeardOnce == CoreSpec => []HeardAtMostOnce
<1>1. CoreInit => HeardInv
  BY RaycastsStart, PointersStart, MediaStarts, ObserversStart, EventsStart, ListStarts
     DEF CoreInit, HeardInv
<1>2. HeardInv /\ [CoreNext]_coreVars => HeardInv'
  <2> SUFFICES ASSUME HeardInv, [CoreNext]_coreVars
               PROVE  HeardInv'
    OBVIOUS
  <2>1. feature' = feature
    BY FeatureStays
  <2>2. ASSUME feature = "raycasts" PROVE RaycastInv'
    BY <2>2, RaycastStep DEF HeardInv, CoreNext, coreVars
  <2>3. ASSUME feature = "pointers" PROVE PointerInv'
    BY <2>3, PointerStep DEF HeardInv, CoreNext, coreVars
  <2>4. ASSUME feature = "media" PROVE MediaInv'
    BY <2>4, MediaStep DEF HeardInv, CoreNext, coreVars
  <2>5. ASSUME feature = "observables" PROVE ObserverInv'
    <3>1. ObserverInv /\ (Observables!Next \/ state' = state)
      BY <2>5 DEF HeardInv, CoreNext, coreVars
    <3>2. CASE state' = state
      BY <3>1, <3>2, Zenon DEF ObserverInv
    <3> QED BY <3>1, <3>2, ObserverStep
  <2>6. ASSUME feature = "events" PROVE EventInv'
    BY <2>6, EventStep DEF HeardInv, CoreNext, coreVars
  <2>7. ASSUME feature = "list" PROVE ListInv'
    <3>1. ListInv /\ (List!Next \/ state' = state)
      BY <2>7 DEF HeardInv, CoreNext, coreVars
    <3>2. CASE state' = state
      BY <3>1, <3>2, Zenon DEF ListInv
    <3> QED BY <3>1, <3>2, ListStep
  <2> QED BY <2>1, <2>2, <2>3, <2>4, <2>5, <2>6, <2>7 DEF HeardInv
<1>3. HeardInv => HeardAtMostOnce
  BY RaycastsHeardOnce, PointersHearOnce, MediaHeardOnce, ObserversHearOnce,
     EventsAreKnownAndOnce, ListIsWalkedOnce DEF HeardInv, HeardAtMostOnce
<1> QED BY <1>1, <1>2, <1>3, PTL DEF CoreSpec
=============================================================================
