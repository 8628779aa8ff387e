---------------------------- MODULE TriggerAreas ----------------------------
(***************************************************************************)
(* createTriggerAreaEventsSystem of ecs/src/systems/triggerArea.ts.        *)
(*                                                                         *)
(* The renderer appends what happens at an area to the area's row, a       *)
(* grow-only value set with rising timestamps.  The system reads the part  *)
(* of the row after the timestamp it consumed last, and calls the stay     *)
(* callback in every tick for everybody it believes to be inside.          *)
(*                                                                         *)
(* stays is what the last tick reported.  A callback may remove itself.    *)
(***************************************************************************)
EXTENDS Integers, FiniteSets, Sequences

CONSTANTS
  Entities,     \* with a trigger area
  Triggerers,
  SceneOwned,   \* the triggerers that have a Transform in the scene
  MaxEvents     \* bound on the length of a row, for model checking

VARIABLES
  areas,        \* of each entity: its entry in the map (callbacks,
                \* lastConsumedTimestamp, insideTriggerers; there is none
                \* without callbacks), the row and stays
  entityState

vars == <<areas, entityState>>
EventTypes == {"enter", "stay", "exit"}
Events == [eventType : EventTypes, trigger : Triggerers, timestamp : 1 .. MaxEvents]
Stays  == [trigger : Triggerers, transform : {"current", "cached"}]

AreasInit ==
  areas = [e \in Entities |-> [callbacks |-> {}, last |-> -1, inside |-> {},
                               row |-> <<>>, stays |-> {}]]

Init == AreasInit /\ entityState = [e \in Entities |-> "used"]

TypeOK ==
  /\ areas \in [Entities -> [callbacks : SUBSET EventTypes, last : -1 .. MaxEvents,
                             inside : SUBSET Triggerers, row : Seq(Events),
                             stays : SUBSET Stays]]
  /\ entityState \in [Entities -> {"used", "removing", "removed"}]
-----------------------------------------------------------------------------
(* Faulty variant: an entry dropped leaves its anchor to the next one.     *)
ForgottenButAnchor(a) == [a EXCEPT !.callbacks = {}, !.inside = {}]

(* The entry of the map is dropped, insideTriggerers with it.              *)
Forgotten(a) == [a EXCEPT !.callbacks = {}, !.last = -1, !.inside = {}]

addEntityCallback(a, type) == [a EXCEPT !.callbacks = @ \cup {type}]

removeEntityCallback(a, type) ==
  IF type \notin a.callbacks THEN a
  ELSE IF a.callbacks = {type} THEN Forgotten(a)
  ELSE [a EXCEPT !.callbacks = @ \ {type}]

(* The first index of the row the system has not consumed.                 *)
Consumed(row, last) == {i \in DOMAIN row : row[i].timestamp <= last}

StartIndex(row, last) ==
  IF row = <<>> \/ last < 0 THEN 1
  ELSE IF row[Len(row)].timestamp > last
       THEN 1 + Cardinality(Consumed(row, last))
  ELSE Len(row) + 1

(* Who is inside after the events of the row at the indices of a span: the *)
(* last enter or exit of each decides.  Stays sent by the renderer are     *)
(* ignored.                                                                *)
Moves(row, span, t) ==
  {i \in span : row[i].trigger = t /\ row[i].eventType # "stay"}

Moved(inside, row, span) ==
  {t \in Triggerers :
     IF Moves(row, span, t) = {} THEN t \in inside
     ELSE \E i \in Moves(row, span, t) :
            row[i].eventType = "enter" /\ \A j \in Moves(row, span, t) : j <= i}

(* One area: the new events, then the stays.  The walk holds the entry: if *)
(* the last callback removes itself, what is left of the row is consumed   *)
(* by an entry nobody sees any more.  quits: the types whose callbacks     *)
(* remove themselves.                                                      *)
Visit(a, quits) ==
  LET fresh  == StartIndex(a.row, a.last) .. Len(a.row)
      inside == Moved(a.inside, a.row, fresh)
      called == {a.row[i].eventType : i \in fresh} \cap (a.callbacks \ {"stay"})
      left   == a.callbacks \ (called \cap quits)
      stays  == IF "stay" \in left THEN inside ELSE {}
      gone   == IF stays # {} THEN left \ ({"stay"} \cap quits) ELSE left
      told   == [a EXCEPT !.stays = [trigger : stays \cap SceneOwned, transform : {"current"}]
                                \cup [trigger : stays \ SceneOwned, transform : {"cached"}]]
  IN  IF a.callbacks = {} THEN told
      ELSE IF gone = {} THEN Forgotten(told)
      ELSE [told EXCEPT !.callbacks = gone, !.inside = inside,
                        !.last = IF fresh = {} THEN @ ELSE a.row[Len(a.row)].timestamp]
-----------------------------------------------------------------------------
(* onTriggerEnter, onTriggerStay, onTriggerExit.                           *)
onTrigger(e, type) ==
  /\ areas' = [areas EXCEPT ![e] = addEntityCallback(@, type)]
  /\ UNCHANGED entityState

(* removeOnTriggerEnter, removeOnTriggerStay, removeOnTriggerExit.         *)
removeOnTrigger(e, type) ==
  /\ areas' = [areas EXCEPT ![e] = removeEntityCallback(@, type)]
  /\ UNCHANGED entityState

(* TriggerAreaResultSystem, and the end of the tick.  The entries of       *)
(* removed entities are collected in the walk and dropped after it.        *)
TriggerAreaResultSystem ==
  \E quits \in SUBSET EventTypes :
    /\ areas' = [e \in Entities |->
                   IF entityState[e] = "removed"
                   THEN [Forgotten(areas[e]) EXCEPT !.stays = {}]
                   ELSE Visit(areas[e], quits)]
    /\ entityState' = [e \in Entities |-> IF entityState[e] = "removing"
                                          THEN "removed" ELSE entityState[e]]

(* Who is inside according to everything the renderer told.                *)
Truth(row) == Moved({}, row, DOMAIN row)

(* The renderer appends an event.  Only those inside stay or leave, only   *)
(* those outside enter.                                                    *)
RendererAppends(e, type, t) ==
  /\ entityState[e] = "used" /\ Len(areas[e].row) < MaxEvents
  /\ (t \in Truth(areas[e].row)) <=> type \in {"stay", "exit"}
  /\ areas' = [areas EXCEPT ![e].row = Append(@,
       [eventType |-> type, trigger |-> t, timestamp |-> Len(@) + 1])]
  /\ UNCHANGED entityState

(* engine.removeEntity empties the row.                                    *)
RemoveEntity(e) ==
  /\ entityState[e] = "used"
  /\ entityState' = [entityState EXCEPT ![e] = "removing"]
  /\ areas' = [areas EXCEPT ![e].row = <<>>]

Next ==
  \/ TriggerAreaResultSystem
  \/ \E e \in Entities :
       \/ RemoveEntity(e)
       \/ \E type \in EventTypes :
            \/ onTrigger(e, type) \/ removeOnTrigger(e, type)
            \/ \E t \in Triggerers : RendererAppends(e, type, t)

Spec == Init /\ [][Next]_vars
-----------------------------------------------------------------------------
(* Once the newest event of the row is consumed, those the system believes *)
(* inside are those the renderer let in and not out, also after callbacks  *)
(* were removed, in a callback or between ticks, and added again.          *)
InsideIsTruth ==
  \A e \in Entities :
    LET a == areas[e] IN
    (a.callbacks # {} /\ a.row # <<>> /\ a.last = Len(a.row)) => a.inside = Truth(a.row)
=============================================================================
