--------------------------- MODULE PhysicsHelpers ---------------------------
(***************************************************************************)
(* createPhysicsForceHelper and createPhysicsImpulseHelper of ecs/src/     *)
(* systems/physics-force.ts and physics-impulse.ts.                        *)
(*                                                                         *)
(* Forces on the player come from sources and add up in one component.  A  *)
(* force may have a duration, a timer of the helper, and a repulsion is    *)
(* computed again in every tick.  Impulses of one tick add up under one    *)
(* event id; the renderer applies a component whose id it has not seen.    *)
(*                                                                         *)
(* Vectors are numbers on a line, the sources are at 0.  Timers are counted*)
(* in ticks.  Ghosts: foreign (somebody else wrote the force), applied,    *)
(* felt (the sum of the impulses given and of those the renderer applied), *)
(* settled (the last step ended a tick).                                   *)
(***************************************************************************)
EXTENDS Integers, FiniteSets, Functions

CONSTANTS
  Sources,
  Vectors,          \* what a scene applies, 0 among them
  Repulsions,       \* [magnitude, radius, falloff]; radius = magnitude if linear
  Positions,        \* of the player
  Durations,        \* in ticks
  CallsBetweenTicks,  \* whether asynchronous code gives impulses
  MaxPhysicsCalls

ForcesAssumption ==
  /\ Vectors \subseteq Int /\ Positions \subseteq Int
  /\ \A r \in Repulsions : r.magnitude \in Int

VARIABLES physics

vars == <<physics>>
Infinity == -1

PhysicsInit ==
  physics = [forceSources     |-> [s \in {} |-> 0],
             repulsionSources |-> [s \in {} |-> 0],
             durationTimers   |-> [s \in {} |-> 0],
             CombinedForce    |-> <<>>,    \* <<>> or <<vector>>
             foreign          |-> FALSE,
             position         |-> 0,
             impulse          |-> <<>>,    \* <<>> or <<vector, eventId>>
             impulseEventId   |-> 0,
             lastWrittenTick  |-> -1,
             tick             |-> 0,       \* EngineInfo.tickNumber
             inSystems        |-> FALSE,
             rendererSawId    |-> 0,
             applied |-> 0, felt |-> 0, settled |-> TRUE, calls |-> 0]

Init == PhysicsInit

(* Type invariant: the maps are over sources, a timer has ticks left.      *)
TypeOK ==
  /\ DOMAIN physics.forceSources \subseteq Sources
  /\ DOMAIN physics.repulsionSources \subseteq Sources
  /\ DOMAIN physics.durationTimers \subseteq Sources
  /\ \A s \in DOMAIN physics.durationTimers : physics.durationTimers[s] > 0
  /\ physics.rendererSawId <= physics.impulseEventId
-----------------------------------------------------------------------------
Set(f, k, v) == [x \in DOMAIN f \cup {k} |-> IF x = k THEN v ELSE f[x]]
Without(f, keys) == [x \in DOMAIN f \ keys |-> f[x]]
Total(f) == FoldFunction(LAMBDA x, y : x + y, 0, f)

(* recalcForce: the component is the sum of the sources, or absent.        *)
recalcForce(p) ==
  [p EXCEPT !.CombinedForce = IF DOMAIN p.forceSources = {} THEN <<>>
                              ELSE <<Total(p.forceSources)>>,
            !.foreign = FALSE]

applyForce(p, s, v) ==
  IF v = 0 THEN p ELSE recalcForce([p EXCEPT !.forceSources = Set(@, s, v)])

(* removeForce, of one source or of several.                               *)
removeForces(p, gone) ==
  LET rest == [p EXCEPT !.repulsionSources = Without(@, gone),
                        !.durationTimers = Without(@, gone)]
  IN  IF gone \cap DOMAIN p.forceSources = {} THEN rest
      ELSE recalcForce([rest EXCEPT !.forceSources = Without(@, gone)])

(* scheduleForceDuration: clears the timer of the source and sets another. *)
scheduleForceDuration(p, s, ticks) ==
  [p EXCEPT !.durationTimers = Set(@, s, ticks)]

(* computeRepulsionVector: a set, empty for null.                          *)
computeRepulsionVector(r, position) ==
  LET distance  == IF position < 0 THEN -position ELSE position
      direction == IF position < 0 THEN -1 ELSE 1
      effective == IF r.falloff = "linear" THEN r.magnitude - distance ELSE r.magnitude
  IN  IF position = 0 THEN {r.magnitude}
      ELSE IF r.radius # Infinity /\ (distance > r.radius \/ effective = 0) THEN {}
      ELSE {direction * effective}

(* The repulsions of some sources reach the player.                        *)
Reaching(p, of) ==
  {s \in of : computeRepulsionVector(p.repulsionSources[s], p.position) # {}}

Repelled(p, s) ==
  CHOOSE v \in computeRepulsionVector(p.repulsionSources[s], p.position) : TRUE

(* Faulty variant: a force that goes out of range is kept.                 *)
WithRepulsionsKept(p, of) ==
  [p EXCEPT !.forceSources =
     [s \in DOMAIN @ \cup Reaching(p, of) |->
        IF s \in Reaching(p, of) THEN Repelled(p, s) ELSE @[s]]]

WithRepulsions(p, of) ==
  [p EXCEPT !.forceSources =
     [s \in (DOMAIN @ \ of) \cup Reaching(p, of) |->
        IF s \in Reaching(p, of) THEN Repelled(p, s) ELSE @[s]]]

applyRepulsion(p, s, r) ==
  recalcForce(WithRepulsions([p EXCEPT !.repulsionSources = Set(@, s, r)], {s}))

(* The timers system: those due end their force.                           *)
TimersSystem(p) ==
  removeForces([p EXCEPT !.durationTimers = [s \in DOMAIN @ |-> @[s] - 1]],
               {s \in DOMAIN p.durationTimers : p.durationTimers[s] = 1})

(* The background system of the helper.                                    *)
BackgroundSystem(p) ==
  IF DOMAIN p.repulsionSources # {}
  THEN recalcForce(WithRepulsions(p, DOMAIN p.repulsionSources))
  ELSE IF DOMAIN p.forceSources = {} /\ p.CombinedForce # <<>>
  THEN [p EXCEPT !.CombinedForce = <<>>, !.foreign = FALSE]
  ELSE p

(* Faulty variant: an impulse of the same tick replaces the one before.    *)
applyImpulseReplaces(p, v) ==
  IF v = 0 THEN p
  ELSE [p EXCEPT !.impulseEventId = @ + 1, !.impulse = <<v, p.impulseEventId + 1>>,
                 !.lastWrittenTick = p.tick, !.applied = @ + v]

(* applyImpulseToPlayer.  The scene writes the component only through it.  *)
applyImpulse(p, v) ==
  LET more == p.lastWrittenTick = p.tick /\ p.impulse # <<>>
  IN  IF v = 0 THEN p
      ELSE [p EXCEPT !.impulseEventId = IF more THEN @ ELSE @ + 1,
                     !.impulse = IF more THEN <<p.impulse[1] + v, p.impulse[2]>>
                                 ELSE <<v, p.impulseEventId + 1>>,
                     !.lastWrittenTick = p.tick,
                     !.applied = @ + v]

(* applyKnockbackToPlayer: the vector of a repulsion as an impulse.        *)
applyKnockback(p, r) ==
  LET vector == computeRepulsionVector(r, p.position)
  IN  IF vector = {} THEN p ELSE applyImpulse(p, CHOOSE v \in vector : TRUE)
-----------------------------------------------------------------------------
SceneCall(p) ==
  /\ physics.calls < MaxPhysicsCalls
  /\ physics' = [p EXCEPT !.calls = @ + 1, !.settled = FALSE]

applyForceToPlayer(s, v) == SceneCall(applyForce(physics, s, v))
removeForceFromPlayer(s) == SceneCall(removeForces(physics, {s}))
applyForceToPlayerForDuration(s, ticks, v) ==
  SceneCall(scheduleForceDuration(applyForce(physics, s, v), s, ticks))
applyRepulsionForceToPlayer(s, r) == SceneCall(applyRepulsion(physics, s, r))

MayGiveImpulse == physics.inSystems \/ CallsBetweenTicks
applyImpulseToPlayer(v) == MayGiveImpulse /\ SceneCall(applyImpulse(physics, v))
applyKnockbackToPlayer(r) == MayGiveImpulse /\ SceneCall(applyKnockback(physics, r))

(* The renderer opens a tick: it moves the player and counts EngineInfo;   *)
(* another client may have written the force of what it takes for its own  *)
(* player.                                                                 *)
TickStarts(position, others) ==
  /\ ~physics.inSystems
  /\ physics' = [physics EXCEPT
       !.position = position, !.tick = @ + 1, !.inSystems = TRUE,
       !.CombinedForce = IF others THEN <<99>> ELSE @,
       !.foreign = @ \/ others, !.settled = FALSE]

(* The helper's systems end the tick, and the renderer gets the component. *)
TickEnds ==
  /\ physics.inSystems
  /\ LET p    == BackgroundSystem(TimersSystem(physics))
         news == p.impulse # <<>> /\ p.impulse[2] # p.rendererSawId
     IN  physics' = [p EXCEPT !.inSystems = FALSE, !.settled = TRUE,
                              !.felt = IF news THEN @ + p.impulse[1] ELSE @,
                              !.rendererSawId = IF news THEN p.impulse[2] ELSE @]

Next ==
  \/ \E position \in Positions, others \in BOOLEAN :
       physics.tick < MaxPhysicsCalls /\ TickStarts(position, others)
  \/ TickEnds
  \/ \E s \in Sources :
       \/ removeForceFromPlayer(s)
       \/ \E v \in Vectors :
            \/ applyForceToPlayer(s, v)
            \/ \E d \in Durations : applyForceToPlayerForDuration(s, d, v)
       \/ \E r \in Repulsions : applyRepulsionForceToPlayer(s, r)
  \/ \E v \in Vectors : applyImpulseToPlayer(v)
  \/ \E r \in Repulsions : applyKnockbackToPlayer(r)

Spec == Init /\ [][Next]_vars
-----------------------------------------------------------------------------
(* The force the player feels is the sum of the sources the helper knows,  *)
(* through expiries, movements and removals.  After a tick the only other  *)
(* case is a foreign write next to constant forces, which nothing computes *)
(* again; and the tick leaves each repulsion with the vector of where the  *)
(* player is now, or with none if that is out of its range.                *)
ForceIsSumOfSources ==
  /\ ~physics.foreign => physics.CombinedForce =
       IF DOMAIN physics.forceSources = {} THEN <<>> ELSE <<Total(physics.forceSources)>>
  /\ ~physics.inSystems =>
       /\ physics.foreign => DOMAIN physics.forceSources # {}
       /\ physics.foreign => DOMAIN physics.repulsionSources = {}
  /\ physics.settled => \A s \in DOMAIN physics.repulsionSources :
       {physics.forceSources[x] : x \in {s} \cap DOMAIN physics.forceSources}
         = computeRepulsionVector(physics.repulsionSources[s], physics.position)

(* Between ticks every impulse given was felt, once.                       *)
EveryImpulseIsFelt ==
  ~physics.inSystems => physics.applied = physics.felt
=============================================================================
