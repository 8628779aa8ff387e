---------------------------- MODULE RaycastSystem ----------------------------
(***************************************************************************)
(* createRaycastSystem of ecs/src/systems/raycast.ts.                      *)
(*                                                                         *)
(* A registration is put off to the next tick, where it writes the Raycast *)
(* of its entity and its callback.  The renderer answers a Raycast at any  *)
(* later moment.  The variable is a record of the closure's maps and of    *)
(* the two components; heard is not in the code: how often the callback of *)
(* each registration ran.                                                  *)
(***************************************************************************)
EXTENDS Naturals, Sequences, FiniteSetsExt

CONSTANTS
  Entities,
  Immediate,    \* those used with registerRaycast, the others with callbacks
  MaxRaycasts   \* bound on the registrations, for model checking

RaycastsAssumption == MaxRaycasts \in Nat

VARIABLES
  raycasts,     \* record of nextTickRaycasts, callbackOf (the map), Raycast,
                \* RaycastResult, registered (the kinds of the
                \* registrations, in order) and heard
  entityState   \* "used", "removing" until the tick releases it, "removed"

NoCallback == 0
Ids == 1 .. MaxRaycasts
vars == <<raycasts, entityState>>

RaycastInit ==
  raycasts = [nextTickRaycasts |-> <<>>,
              callbackOf    |-> [e \in Entities |-> NoCallback],
              Raycast       |-> [e \in Entities |-> "absent"],
              RaycastResult |-> [e \in Entities |-> FALSE],
              registered    |-> <<>>,
              heard         |-> [id \in Ids |-> 0]]

Init == RaycastInit /\ entityState = [e \in Entities |-> "used"]

TypeOK ==
  /\ raycasts.nextTickRaycasts \in
       Seq([entity : Entities, id : Ids, kind : {"once", "continuous"}])
  /\ raycasts.callbackOf \in [Entities -> {NoCallback} \cup Ids]
  /\ raycasts.Raycast \in [Entities -> {"absent", "once", "continuous"}]
  /\ raycasts.RaycastResult \in [Entities -> BOOLEAN]
  /\ Len(raycasts.registered) <= MaxRaycasts
  /\ raycasts.heard \in [Ids -> Nat]
  /\ entityState \in [Entities -> {"used", "removing", "removed"}]
-----------------------------------------------------------------------------
(* Functions of the record, for a callback may call them in the walk.      *)

(* registerRaycastWithCallback, behind the four register* functions: they  *)
(* differ in the direction they put into the component.                    *)
Registered(s, e, kind) ==
  IF Len(s.registered) = MaxRaycasts THEN s
  ELSE [s EXCEPT !.registered = Append(@, kind),
                 !.nextTickRaycasts =
                    Append(@, [entity |-> e, id |-> Len(s.registered) + 1, kind |-> kind])]

removeRaycast(s, e) ==
  [s EXCEPT !.Raycast[e] = "absent", !.RaycastResult[e] = FALSE,
            !.callbackOf[e] = NoCallback]

(* The registrations put off of an entity; the last of them stays.         *)
PutOff(s, e) == {i \in DOMAIN s.nextTickRaycasts : s.nextTickRaycasts[i].entity = e}
LastPutOff(s, e) == s.nextTickRaycasts[Max(PutOff(s, e))]

(* onNextTick of all of them: createOrReplace, and the map.                *)
onNextTick(s) ==
  [s EXCEPT !.nextTickRaycasts = <<>>,
            !.Raycast = [e \in Entities |-> IF PutOff(s, e) = {} THEN @[e] ELSE LastPutOff(s, e).kind],
            !.callbackOf = [e \in Entities |-> IF PutOff(s, e) = {} THEN @[e] ELSE LastPutOff(s, e).id]]

(* What a callback does with the system: nothing, remove or register.      *)
Reactions == {[call |-> "none"]}
  \cup [call : {"remove"}, entity : Entities]
  \cup [call : {"register"}, entity : Entities \ Immediate, kind : {"once", "continuous"}]

React(s, r) ==
  IF r.call = "remove" THEN removeRaycast(s, r.entity)
  ELSE IF r.call = "register" THEN Registered(s, r.entity, r.kind)
  ELSE s

(* Entries of the walk, of some entities: those deleted since are forgotten*)
(* and those with a result are answered.                                   *)
Forgotten(s, visited) ==
  {e \in visited : s.callbackOf[e] # NoCallback
                    /\ (entityState[e] = "removed" \/ s.Raycast[e] = "absent")}

Answered(s, visited) ==
  {e \in visited \ Forgotten(s, visited) :
     s.callbackOf[e] # NoCallback /\ s.RaycastResult[e]}

(* Faulty variant: a raycast that is not continuous stays.                 *)
DroppedNone(s, visited) == {}

(* removeRaycast after the answer, if it was not continuous.               *)
Dropped(s, visited) == {e \in Answered(s, visited) : s.Raycast[e] # "continuous"}

(* The ghost counts the callbacks of raycasts that are not continuous.     *)
Heard(s, visited, id) ==
  \E e \in Answered(s, visited) : s.callbackOf[e] = id /\ s.registered[id] = "once"

(* Visits of entities, in any order.  None of them concerns another.       *)
Visited(s, visited) ==
  LET dropped == Dropped(s, visited)
  IN  [s EXCEPT
         !.heard = [id \in Ids |-> IF Heard(s, visited, id) THEN @[id] + 1 ELSE @[id]],
         !.Raycast = [e \in Entities |-> IF e \in dropped THEN "absent" ELSE @[e]],
         !.RaycastResult = [e \in Entities |-> @[e] /\ e \notin dropped],
         !.callbackOf = [e \in Entities |-> IF e \in dropped \cup Forgotten(s, visited)
                                            THEN NoCallback ELSE @[e]]]
-----------------------------------------------------------------------------
(* registerLocalDirectionRaycast and the three others, outside the walk.   *)
registerRaycastWithCallback(e, kind) ==
  /\ e \notin Immediate /\ Len(raycasts.registered) < MaxRaycasts
  /\ raycasts' = Registered(raycasts, e, kind)
  /\ UNCHANGED entityState

removeRaycasterEntity(e) ==
  /\ raycasts' = removeRaycast(raycasts, e)
  /\ UNCHANGED entityState

(* registerRaycast, the mode without a callback: it answers the result and *)
(* takes both components away unless the call says continuous.             *)
registerRaycast(e, kind) ==
  /\ e \in Immediate
  /\ raycasts' =
       IF raycasts.RaycastResult[e] /\ kind = "once"
       THEN [raycasts EXCEPT !.Raycast[e] = "absent", !.RaycastResult[e] = FALSE]
       ELSE IF raycasts.Raycast[e] = "absent"
       THEN [raycasts EXCEPT !.Raycast[e] = kind]
       ELSE raycasts
  /\ UNCHANGED entityState

(* The end of the tick: releaseRemovedEntities.                            *)
Released == [e \in Entities |->
               IF entityState[e] = "removing" THEN "removed" ELSE entityState[e]]

(* RaycastEventSystem.  A Map is walked in the order of its insertions;    *)
(* here in any order.  One callback reacts, before the raycast it answers  *)
(* is removed, which makes no difference; the entities not visited by then *)
(* see what it did.                                                        *)
RaycastEventSystem ==
  \E before \in SUBSET Entities, reaction \in Reactions :
    LET added    == onNextTick(raycasts)
        answered == Visited(added, before)
        reacted  == IF Answered(added, before) = {} THEN answered ELSE React(answered, reaction)
    IN  /\ raycasts' = Visited(reacted, Entities \ before)
        /\ entityState' = Released

(* The renderer puts the result of a raycast it knows of.                  *)
RendererAnswers(e) ==
  /\ entityState[e] # "removed" /\ raycasts.Raycast[e] # "absent"
  /\ raycasts' = [raycasts EXCEPT !.RaycastResult[e] = TRUE]
  /\ UNCHANGED entityState

(* engine.removeEntity: the components go, the callbacks stay.             *)
RemoveEntity(e) ==
  /\ entityState[e] = "used"
  /\ entityState' = [entityState EXCEPT ![e] = "removing"]
  /\ raycasts' = [raycasts EXCEPT !.Raycast[e] = "absent", !.RaycastResult[e] = FALSE]

Next ==
  \/ RaycastEventSystem
  \/ \E e \in Entities :
       \/ removeRaycasterEntity(e) \/ RendererAnswers(e) \/ RemoveEntity(e)
       \/ \E kind \in {"once", "continuous"} :
            registerRaycastWithCallback(e, kind) \/ registerRaycast(e, kind)

(* The callback of a raycast that is not continuous runs once, however     *)
(* late the result comes and whatever callbacks do in between.  It relates *)
(* the put-off registration, the map and the removal at the end of a visit.*)
HeardAtMostOnce ==
  \A id \in DOMAIN raycasts.registered :
    raycasts.registered[id] = "once" => raycasts.heard[id] <= 1

Spec == Init /\ [][Next]_vars
=============================================================================
