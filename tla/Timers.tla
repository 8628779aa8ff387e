------------------------------- MODULE Timers -------------------------------
(***************************************************************************)
(* setTimeout and setInterval: createTimers of ecs/src/runtime/helpers.    *)
(*                                                                         *)
(* The timers are a Map that a system walks once per frame, adding the     *)
(* frame's time to each.  A JavaScript Map is walked in insertion order,   *)
(* entries added during the walk are reached by it and deleted ones are    *)
(* not; ids grow, so the walk visits the ids in ascending order.  A        *)
(* callback runs in the middle of the walk and may set and clear timers.   *)
(*                                                                         *)
(* now, armedAt, firedAt and chain are not in the code.  They measure what *)
(* the code promises: a clock, the instant a timer was armed at, the       *)
(* instant it should fire at, and how many callbacks of the same frame     *)
(* armed one another before it.                                            *)
(***************************************************************************)
EXTENDS Integers, FiniteSetsExt

CONSTANTS
  Intervals,   \* milliseconds given to setTimeout and setInterval
  FrameTimes,  \* milliseconds a frame may last
  MaxTimers,   \* bound on the timers set, for model checking
  MaxTime,     \* bound on the clock, for model checking
  NaN          \* what x % 0 is, and everything computed from it

TimersAssumption ==
  /\ Intervals \subseteq Nat /\ FrameTimes \subseteq Nat
  /\ MaxTimers \in Nat /\ MaxTime \in Nat
  /\ NaN \notin Int

VARIABLES
  timers,          \* the Map, with armedAt and chain in every entry
  timerIdCounter,
  phase,           \* "idle" between frames, "walk", or "callback" of a timer
  elapsedMs,       \* of the frame in course
  visited,         \* the id the walk reached last
  armContext,      \* accruedMs while a callback runs, with firedAt and chain
  now              \* the clock, at the end of the frame in course

vars == <<timers, timerIdCounter, phase, elapsedMs, visited, armContext, now>>

NoContext == [accruedMs |-> 0, firedAt |-> 0, chain |-> 0]
Ids == 0 .. MaxTimers - 1

Init ==
  /\ timers = [id \in {} |-> NoContext]
  /\ timerIdCounter = 0
  /\ phase = "idle"
  /\ elapsedMs = 0
  /\ visited = -1
  /\ armContext = NoContext
  /\ now = 0
-----------------------------------------------------------------------------
(* Arithmetic on numbers that may be NaN; NaN < x is false.                *)
Plus(x, y)    == IF NaN \in {x, y} THEN NaN ELSE x + y
Minus(x, y)   == IF NaN \in {x, y} THEN NaN ELSE x - y
Modulo(x, y)  == IF x = NaN \/ y = 0 THEN NaN ELSE x % y
LessThan(x, y) == x # NaN /\ x < y

With(id, timer) == [k \in DOMAIN timers \cup {id} |-> IF k = id THEN timer ELSE timers[k]]
Without(id)     == [k \in DOMAIN timers \ {id} |-> timers[k]]

(* Faulty variants: the time of the parent's fire instant is not           *)
(* inherited; it is inherited from the end of the frame.                   *)
SeedFromFrameStart == 0
SeedFromFrameEnd == IF phase = "callback" THEN -elapsedMs ELSE 0

(* A timer set by a callback starts at the callback's fire instant.        *)
Seed == IF phase = "callback" THEN Minus(0, armContext.accruedMs) ELSE 0

(* addTimer: setTimeout and setInterval, from a callback or between frames.*)
addTimer(interval, recurrent) ==
  /\ phase \in {"idle", "callback"}
  /\ timerIdCounter < MaxTimers
  /\ timers' = With(timerIdCounter,
       [interval |-> interval, recurrent |-> recurrent, accumulatedTime |-> Seed,
        armedAt  |-> IF phase = "callback" THEN armContext.firedAt ELSE now,
        chain    |-> IF phase = "callback" THEN armContext.chain + 1 ELSE 0])
  /\ timerIdCounter' = timerIdCounter + 1
  /\ UNCHANGED <<phase, elapsedMs, visited, armContext, now>>

(* clearTimeout and clearInterval of a timer that is set.                  *)
clearTimer(id) ==
  /\ phase \in {"idle", "callback"}
  /\ id \in DOMAIN timers
  /\ timers' = Without(id)
  /\ UNCHANGED <<timerIdCounter, phase, elapsedMs, visited, armContext, now>>
-----------------------------------------------------------------------------
(* The timers system is called with the frame's time.                      *)
BeginFrame(ms) ==
  /\ phase = "idle"
  /\ now + ms <= MaxTime
  /\ now' = now + ms
  /\ elapsedMs' = ms
  /\ phase' = "walk"
  /\ visited' = -1
  /\ timers' = [id \in DOMAIN timers |-> [timers[id] EXCEPT !.chain = 0]]
  /\ UNCHANGED <<timerIdCounter, armContext>>

Ahead == {id \in DOMAIN timers : id > visited}

(* Faulty variants: what is left of the interval is dropped, or kept whole.*)
residualDropped(timer, time) == 0
residualWhole(timer, time) == time

(* Time past the timer's fire instant; missed periods collapse into one.   *)
residualMs(timer, time) ==
  IF timer.recurrent THEN Modulo(time, timer.interval) ELSE Minus(time, timer.interval)

(* The instant an ideal timer fires at, in the frame that ends now.        *)
FireInstant(timer) ==
  IF timer.recurrent /\ timer.interval > 0
  THEN now - ((now - timer.armedAt) % timer.interval)
  ELSE timer.armedAt + timer.interval

(* One iteration of the loop: the timer keeps waiting, or fires.           *)
Visit ==
  /\ phase = "walk"
  /\ Ahead # {}
  /\ LET id    == Min(Ahead)
         timer == timers[id]
         time  == Plus(timer.accumulatedTime, elapsedMs)
         rest  == residualMs(timer, time)
     IN  /\ visited' = id
         /\ \/ /\ LessThan(time, timer.interval)
               /\ timers' = [timers EXCEPT ![id].accumulatedTime = time]
               /\ UNCHANGED <<phase, armContext>>
            \/ /\ ~LessThan(time, timer.interval)
               /\ timers' = IF timer.recurrent
                            THEN [timers EXCEPT ![id].accumulatedTime = rest]
                            ELSE Without(id)
               /\ phase' = "callback"
               /\ armContext' = [accruedMs |-> Minus(elapsedMs, rest),
                                 firedAt   |-> FireInstant(timer),
                                 chain     |-> timer.chain]
  /\ UNCHANGED <<timerIdCounter, elapsedMs, now>>

(* The callback returns.                                                   *)
EndCallback ==
  /\ phase = "callback"
  /\ phase' = "walk"
  /\ armContext' = NoContext
  /\ UNCHANGED <<timers, timerIdCounter, elapsedMs, visited, now>>

EndFrame ==
  /\ phase = "walk"
  /\ Ahead = {}
  /\ phase' = "idle"
  /\ visited' = -1
  /\ elapsedMs' = 0
  /\ UNCHANGED <<timers, timerIdCounter, armContext, now>>

Next ==
  \/ \E interval \in Intervals, recurrent \in BOOLEAN : addTimer(interval, recurrent)
  \/ \E id \in Ids : clearTimer(id)
  \/ \E ms \in FrameTimes : BeginFrame(ms)
  \/ Visit
  \/ EndCallback
  \/ EndFrame

Spec == Init /\ [][Next]_vars
-----------------------------------------------------------------------------
(* Every timer in the map is one that was set and still has to wait.       *)
TypeOK ==
  /\ timerIdCounter \in 0 .. MaxTimers
  /\ phase \in {"idle", "walk", "callback"}
  /\ \A id \in DOMAIN timers :
       /\ id \in 0 .. timerIdCounter - 1
       /\ LessThan(timers[id].accumulatedTime, timers[id].interval)

(* "its delay is measured from the parent's fire instant rather than from  *)
(* the start of the frame": a callback runs in the frame of its fire       *)
(* instant, never before it, and what it arms is measured from there,      *)
(* however deep callbacks arm one another.                                 *)
FiresAtItsInstant ==
  phase = "callback" =>
    /\ armContext.firedAt <= now
    /\ armContext.accruedMs = armContext.firedAt - (now - elapsedMs)

(* Between frames every timer has accumulated the time since it was armed, *)
(* modulo its period if it repeats: none is overdue and none has drifted,  *)
(* whatever the frames lasted and whoever armed it.                        *)
PhaseAccurate ==
  phase = "idle" => \A id \in DOMAIN timers :
    LET timer == timers[id]
        age   == now - timer.armedAt
    IN  IF timer.recurrent
        THEN timer.accumulatedTime = age % timer.interval
        ELSE timer.accumulatedTime = age /\ age < timer.interval

(* "Each successive arming starts one interval lower, so a re-arming chain *)
(* terminates this frame": callbacks of one frame that arm one another are *)
(* at most as many as its milliseconds.                                    *)
ChainWithinFrame ==
  phase # "idle" => \A id \in DOMAIN timers : timers[id].chain <= elapsedMs
=============================================================================
