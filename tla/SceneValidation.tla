--------------------------- MODULE SceneValidation ---------------------------
(***************************************************************************)
(* What a command of the toolchain asks of the folders it is given before  *)
(* it builds, exports or deploys them (sdk-commands/src/logic:             *)
(* workspace-validations.ts, project-validations.ts, scene-validations.ts, *)
(* portable-experience-sw-validations.ts; the walk over the parcels is     *)
(* ecs/src/runtime/helpers/coordinates.ts).                                *)
(*                                                                         *)
(* A scene.json is its list of parcels with the base, and whether the rest *)
(* of it fits the JSON schema; the validation stops at the first folder    *)
(* that is not valid.                                                      *)
(***************************************************************************)
EXTENDS Integers, Sequences, FiniteSets, SequencesExt

CONSTANTS Folders,     \* bound: folders of the workspace
          Grid,        \* parcels a scene.json may list, <<x, y>>
          World,       \* those inside the limits of the world
          MaxParcels   \* bound: parcels of one scene.json

ValidationAssumption == Grid \subseteq Int \X Int /\ MaxParcels \in Nat /\ Folders \in Nat

VARIABLE validation

vars == <<validation>>

ParcelLists == UNION {[1 .. n -> Grid] : n \in 0 .. MaxParcels}
NoScene == [parcels |-> <<>>, base |-> <<0, 0>>, fits |-> FALSE]

Init ==
  validation = [folder |-> 1, phase |-> "folder", scene |-> NoScene,
                visited |-> {}, stackToVisit |-> <<>>, kind |-> "none", projects |-> <<>>]

Throws == validation' = [validation EXCEPT !.phase = "thrown"]
Enters(phase) == validation' = [validation EXCEPT !.phase = phase]

-----------------------------------------------------------------------------
(* assertValidProjectFolder: package.json, then the first of wearable.json *)
(* and scene.json that exists; a wearable is read as JSON, no more.        *)
assertValidProjectFolder ==
  /\ validation.phase = "folder" /\ validation.folder <= Folders
  /\ \/ Throws
     \/ \E kind \in {"scene", "smart-wearable"} :
          validation' = [validation EXCEPT !.kind = kind, !.phase =
                           IF kind = "scene" THEN "scene" ELSE "wearable"]

getValidWearableJson ==
  /\ validation.phase = "wearable"
  /\ Throws \/ Enters("scene")

(* getValidSceneJson reads the file.                                       *)
getValidSceneJson ==
  /\ validation.phase = "scene"
  /\ \/ Throws
     \/ \E parcels \in ParcelLists, base \in Grid, fits \in BOOLEAN :
          validation' = [validation EXCEPT
            !.scene = [parcels |-> parcels, base |-> base, fits |-> fits],
            !.phase = "assert"]

(* The checks of assertValidScene before the walk over the parcels.        *)
assertValidScene ==
  LET s == validation.scene IN
  /\ validation.phase = "assert"
  /\ IF /\ s.fits
        /\ Cardinality(ToSet(s.parcels)) = Len(s.parcels)
        /\ s.base \in ToSet(s.parcels)
        /\ ToSet(s.parcels) \subseteq World
       THEN validation' = [validation EXCEPT !.phase = "parcels", !.visited = {},
                                             !.stackToVisit = <<s.parcels[1]>>]
       ELSE Throws

Only(c, parcels) == IF c \in parcels THEN <<c>> ELSE <<>>

(* Faulty variant: the neighbour to the west is forgotten.                 *)
getNeighboursButWest(x, y, parcels) ==
  Only(<<x + 1, y>>, parcels) \o Only(<<x, y + 1>>, parcels) \o Only(<<x, y - 1>>, parcels)
getNeighbours(x, y, parcels) ==
  Only(<<x + 1, y>>, parcels) \o Only(<<x - 1, y>>, parcels)
    \o Only(<<x, y + 1>>, parcels) \o Only(<<x, y - 1>>, parcels)

(* One round of the loop of visitConnectedParcels.                         *)
visitConnectedParcels ==
  LET s       == validation
      current == Last(s.stackToVisit)
      rest    == Front(s.stackToVisit)
      seen    == s.visited \cup {current}
      next    == getNeighbours(current[1], current[2], ToSet(s.scene.parcels) \ seen)
  IN  /\ s.phase = "parcels" /\ s.stackToVisit # <<>>
      /\ validation' = IF current \in s.visited
                         THEN [s EXCEPT !.stackToVisit = rest]
                         ELSE [s EXCEPT !.visited = seen, !.stackToVisit = rest \o next]

(* The project joins the workspace; the next folder is looked at.          *)
areConnected ==
  /\ validation.phase = "parcels" /\ validation.stackToVisit = <<>>
  /\ IF Cardinality(validation.visited) # Len(validation.scene.parcels) THEN Throws
     ELSE Enters("main")

(* At last the name of the script is looked at.                            *)
mainIsScript ==
  /\ validation.phase = "main"
  /\ \/ Throws
     \/ validation' = [validation EXCEPT
          !.projects = Append(@, [kind |-> validation.kind,
                                  parcels |-> ToSet(validation.scene.parcels)]),
          !.folder = @ + 1, !.phase = "folder", !.scene = NoScene,
          !.visited = {}, !.stackToVisit = <<>>, !.kind = "none"]

Next ==
  \/ assertValidProjectFolder \/ getValidWearableJson \/ getValidSceneJson
  \/ assertValidScene \/ visitConnectedParcels \/ areConnected \/ mainIsScript

Spec == Init /\ [][Next]_vars
-----------------------------------------------------------------------------
(* Type invariant.                                                         *)
TypeOK ==
  /\ validation.phase \in {"folder", "wearable", "scene", "assert", "parcels", "main", "thrown"}
  /\ validation.folder \in 1 .. Folders + 1
  /\ validation.visited \subseteq Grid /\ ToSet(validation.stackToVisit) \subseteq Grid
  /\ Len(validation.projects) = validation.folder - 1

(* A set of parcels falls apart if it can be split into two that do not    *)
(* touch.                                                                  *)
Touch(p, q) == \/ p[1] = q[1] /\ (p[2] = q[2] + 1 \/ q[2] = p[2] + 1)
               \/ p[2] = q[2] /\ (p[1] = q[1] + 1 \/ q[1] = p[1] + 1)
Connected(parcels) ==
  \A part \in (SUBSET parcels) \ {{}, parcels} :
    \E p \in part, q \in parcels \ part : Touch(p, q)

(* The walk accepts exactly the scenes whose parcels hang together, from   *)
(* whichever parcel it starts and however they are listed (areConnected    *)
(* compares the number visited with the length of the list), and only such *)
(* scenes are projects of the workspace.                                   *)
WalkFindsConnection ==
  /\ validation.phase = "main" => Connected(ToSet(validation.scene.parcels))
  /\ validation.phase = "parcels" /\ validation.stackToVisit = <<>>
     /\ Connected(ToSet(validation.scene.parcels))
     => validation.visited = ToSet(validation.scene.parcels)
  /\ \A i \in 1 .. Len(validation.projects) :
       Connected(validation.projects[i].parcels) /\ validation.projects[i].parcels # {}
=============================================================================
