---------------------------- MODULE PointerEvents ----------------------------
(***************************************************************************)
(* createInputSystem of ecs/src/engine/input.ts, and over it               *)
(* createPointerEventsSystem of ecs/src/systems/events.ts.                 *)
(*                                                                         *)
(* The renderer appends commands to the PointerEventsResult of entities, a *)
(* row in timestamp order.  A system of the highest priority digests the   *)
(* commands of the frame; the rest of the frame asks it what happened.     *)
(* input is a record of globalState, of the rows and of the renderer's     *)
(* clock.  Timestamps of a frame are later than those of frames before.    *)
(*                                                                         *)
(* A callback is kept in eventsMap by entity and type of event.  What the  *)
(* renderer should watch for is told by entries of the PointerEvents       *)
(* component; the two are kept in step by hand.  A registration is named   *)
(* by the function called; three pairs of them share a type.               *)
(***************************************************************************)
EXTENDS Integers, Sequences, FiniteSets, FiniteSetsExt

CONSTANTS
  Entities,
  Buttons,        \* InputCommands, a set of numbers, the order of their search
  IA_ANY,         \* a query for any of them
  States,         \* of a command: "down", "up", and others ("hover_enter")
  Registrations,  \* of the scene: a subset of DOMAIN TypeOf
  Options,        \* registration -> set of [button, hoverText : BOOLEAN]
  MaxCommands,    \* bounds on the commands and the calls, for model checking
  MaxPointerCalls

PointerAssumption ==
  /\ IsFiniteSet(Entities) /\ Registrations \subseteq
       {"onClick", "onPointerDown", "onPointerUp", "onPointerHoverEnter", "onPointerHoverLeave",
        "onProximityDown", "onProximityUp", "onProximityEnter", "onProximityLeave"}

VARIABLES
  input,
  pointer,        \* record of eventsMap, the PointerEvents entries, the phase
                  \* of the frame, the number of calls, and heard, which is
                  \* not in the code: the commands each callback got, and
                  \* whether one got a command again
  entityState

-----------------------------------------------------------------------------
(* The input system.                                                       *)

Nothing == [timestamp |-> 0]
Commands == [entity : Entities, button : Buttons, state : States,
             timestamp : 1 .. MaxCommands, serial : 1 .. MaxCommands]

InputInit ==
  input = [row              |-> [e \in Entities |-> <<>>],
           previousFrameMax |-> 0,
           currentFrameMax  |-> 0,
           buttonState      |-> [b \in Buttons |-> Nothing],
           thisFrameCommands |-> {},
           clock            |-> 0,
           serial           |-> 0,
           frame |-> {}, frameTo |-> 0]   \* ghosts: the commands of the last frame,
                                          \* and the clock when it began

InputTypeOK ==
  /\ input.row \in [Entities -> Seq(Commands)]
  /\ input.buttonState \in [Buttons -> Commands \cup {Nothing}]
  /\ input.thisFrameCommands \subseteq Commands
  /\ input.previousFrameMax <= input.currentFrameMax /\ input.currentFrameMax <= input.clock
-----------------------------------------------------------------------------
IsPress(c) == c.state \in {"down", "up"}

(* A row is walked from its newest command.  An UP or DOWN not newer than  *)
(* the state of its button, which one of this walk may have set, is taken  *)
(* for one already digested, and ends it.                                  *)
EndsWalk(s, row, i) ==
  /\ IsPress(row[i])
  /\ \/ row[i].timestamp <= s.buttonState[row[i].button].timestamp
     \/ \E j \in i + 1 .. Len(row) : IsPress(row[j]) /\ row[j].button = row[i].button

Seen(s, row) == {i \in DOMAIN row : \A j \in i + 1 .. Len(row) : ~EndsWalk(s, row, j)}

Pressed(s, row) == {row[i] : i \in {j \in Seen(s, row) : IsPress(row[j]) /\ ~EndsWalk(s, row, j)}}

DigestRow(s, row) ==
  LET seen == {row[i] : i \in Seen(s, row)}
  IN  [s EXCEPT
         !.currentFrameMax = Max({@} \cup {c.timestamp : c \in seen}),
         !.thisFrameCommands = @ \cup {c \in seen : c.timestamp > s.previousFrameMax},
         !.buttonState = [b \in Buttons |->
            IF \E c \in Pressed(s, row) : c.button = b
            THEN CHOOSE c \in Pressed(s, row) : c.button = b ELSE @[b]]]

(* buttonStateUpdateSystem on the rows of this frame, in the order of the  *)
(* component's Map.                                                        *)
buttonStateUpdateSystem(s, rows) ==
  LET after[i \in 0 .. Len(rows)] ==
        IF i = 0 THEN [s EXCEPT !.previousFrameMax = s.currentFrameMax,
                                !.thisFrameCommands = {}]
        ELSE DigestRow(after[i - 1], rows[i])
  IN  after[Len(rows)]
-----------------------------------------------------------------------------
timestampIsCurrentFrame(t) == input.previousFrameMax < t /\ t <= input.currentFrameMax

(* The newest index of a row, up to one, whose command satisfies P.        *)
LastIndex(row, upTo, P(_)) == Max({0} \cup {i \in 1 .. upTo : P(row[i])})

(* findLastAction: 0, or the index in the row.                             *)
findLastAction(state, button, e) ==
  LET wanted(c) == c.button = button /\ c.state = state
  IN  LastIndex(input.row[e], Len(input.row[e]), wanted)

(* findInputCommand, as the set of the command found.                      *)
findInputCommand(button, state, e) ==
  {c \in {input.row[e][i] : i \in {findLastAction(state, button, e)} \ {0}} :
     timestampIsCurrentFrame(c.timestamp)}

(* findClick: the last UP and the last DOWN before it, of one button; the  *)
(* search ends with the UP and not with the DOWN, for a DOWN after the last*)
(* UP is passed over.                                                      *)
findClick(button, e) ==
  LET row     == input.row[e]
      up      == findLastAction("up", button, e)
      isDown(c) == c.button = button /\ c.state = "down"
      down    == LastIndex(row, up - 1, isDown)
  IN  IF /\ up # 0 /\ down # 0
         /\ row[down].timestamp <= row[up].timestamp
         /\ timestampIsCurrentFrame(row[up].timestamp)
      THEN {row[up]} ELSE {}

(* What find answers for a button, or for IA_ANY the first answer in the   *)
(* order of InputCommands.                                                 *)
FirstOf(button, find(_)) ==
  IF button # IA_ANY THEN find(button)
  ELSE LET found == {b \in Buttons : find(b) # {}}
       IN  IF found = {} THEN {} ELSE find(Min(found))

getClick(button, e) == FirstOf(button, LAMBDA b : findClick(b, e))

getInputCommandFromEntity(button, state, e) ==
  FirstOf(button, LAMBDA b : findInputCommand(b, state, e))

(* isTriggered with an entity; IA_ANY is compared like a button here.      *)
isTriggeredOn(button, state, e) == findInputCommand(button, state, e) # {}

(* isTriggered and getInputCommand without an entity.                      *)
isTriggered(button, state) ==
  \E c \in input.thisFrameCommands :
    c.state = state /\ button \in {c.button, IA_ANY}

isPressed(button) ==
  input.buttonState[button] # Nothing /\ input.buttonState[button].state = "down"
-----------------------------------------------------------------------------
(* The renderer produces one more command of the next frame, at the time   *)
(* of the one before or later.                                             *)
RendererCommand(e, button, state, later) ==
  LET t == IF later \/ input.clock = input.frameTo
           THEN input.clock + 1 ELSE input.clock
      c == [entity |-> e, button |-> button, state |-> state,
            timestamp |-> t, serial |-> input.serial + 1]
  IN  /\ input.serial < MaxCommands
      /\ input' = [input EXCEPT !.row[e] = Append(@, c), !.clock = t, !.serial = @ + 1]

(* The input system's part of a frame; a Map with the rows in some order.  *)
NewCommands(row) == {c \in UNION {Range(row[e]) : e \in Entities} : c.timestamp > input.frameTo}

InputFrame ==
  LET withRow == {e \in Entities : input.row[e] # <<>>} IN
  \E order \in Injection(1 .. Cardinality(withRow), withRow) :
    input' = [buttonStateUpdateSystem(input, [i \in DOMAIN order |-> input.row[order[i]]])
                EXCEPT !.frame = NewCommands(input.row), !.frameTo = input.clock]

-----------------------------------------------------------------------------
(* The pointer events system.                                              *)

vars == <<input, pointer, entityState>>

(* EventType of a registration.                                            *)
TypeOf ==
  [onClick |-> "Click", onPointerDown |-> "Down", onPointerUp |-> "Up",
   onPointerHoverEnter |-> "HoverEnter", onPointerHoverLeave |-> "HoverLeave",
   onProximityDown |-> "Down", onProximityUp |-> "Up",
   onProximityEnter |-> "ProximityEnter", onProximityLeave |-> "ProximityLeave"]

EventTypes == {TypeOf[f] : f \in DOMAIN TypeOf}

Interaction(f) ==
  IF f \in {"onProximityDown", "onProximityUp", "onProximityEnter", "onProximityLeave"}
  THEN "proximity" ELSE "cursor"

(* A click is announced as a DOWN.                                         *)
getPointerEvent(type) ==
  CASE type = "Up"             -> "up"
    [] type = "HoverLeave"     -> "hover_leave"
    [] type = "HoverEnter"     -> "hover_enter"
    [] type = "ProximityEnter" -> "proximity_enter"
    [] type = "ProximityLeave" -> "proximity_leave"
    [] OTHER                   -> "down"

NoCallback == [id |-> 0]

PointerInit ==
  /\ pointer = [eventsMap     |-> [e \in Entities |-> [t \in EventTypes |-> NoCallback]],
                PointerEvents |-> [e \in Entities |-> {}],
                phase         |-> "renderer",
                calls         |-> 0,
                heard         |-> {},
                heardAgain    |-> FALSE]
  /\ entityState = [e \in Entities |-> "used"]

Init == InputInit /\ PointerInit

(* Type invariant: callbacks are numbered by the calls that set them.      *)
TypeOK ==
  /\ InputTypeOK
  /\ \A e \in Entities, t \in EventTypes : pointer.eventsMap[e][t].id <= pointer.calls
  /\ pointer.calls \in 0 .. MaxPointerCalls
  /\ pointer.heard \subseteq [id : 1 .. MaxPointerCalls, serial : 1 .. MaxCommands]
  /\ entityState \in [Entities -> {"used", "removing", "removed"}]
-----------------------------------------------------------------------------
(* setPointerEvent pushes an entry.  The entries are a set: they are told  *)
(* apart by their fields only, here and by the renderer.                   *)
setPointerEvent(p, e, state, opts, interaction) ==
  [p EXCEPT !.PointerEvents[e] =
     @ \cup {[state |-> state, button |-> opts.button, interaction |-> interaction]}]

(* removePointerEvent takes away all entries alike.                        *)
removePointerEvent(p, e, state, button, interaction) ==
  [p EXCEPT !.PointerEvents[e] =
     @ \ {[state |-> state, button |-> button, interaction |-> interaction]}]

(* removeEvent: an entry is only looked for if the callback had a hover    *)
(* text, and always among those of the cursor.                             *)
removeEvent(p, e, type) ==
  LET old  == p.eventsMap[e][type]
      kept == [p EXCEPT !.eventsMap[e][type] = NoCallback]
  IN  IF old # NoCallback /\ old.hoverText
      THEN removePointerEvent(kept, e, getPointerEvent(type), old.button, "cursor")
      ELSE kept

(* onClick, onPointerDown, ... onProximityLeave.                           *)
Registered(p, f, e, opts) ==
  setPointerEvent(
    [removeEvent(p, e, TypeOf[f]) EXCEPT
       !.calls = @ + 1,
       !.eventsMap[e][TypeOf[f]] = [id        |-> p.calls + 1,
                                    button    |-> opts.button,
                                    hoverText |-> opts.hoverText]],
    e, getPointerEvent(TypeOf[f]), opts, Interaction(f))

onPointer(f, e, opts) ==
  /\ entityState[e] = "used" /\ pointer.calls < MaxPointerCalls
  /\ pointer' = Registered(pointer, f, e, opts)
  /\ UNCHANGED <<input, entityState>>

(* removeOnClick, removeOnPointerDown, ... removeOnProximityLeave.         *)
removeOnPointer(f, e) ==
  /\ pointer.calls < MaxPointerCalls
  /\ pointer.eventsMap[e][TypeOf[f]] # NoCallback
  /\ pointer' = [removeEvent(pointer, e, TypeOf[f]) EXCEPT !.calls = @ + 1]
  /\ UNCHANGED <<input, entityState>>

(* The command a callback of the type gets in this frame, if any.          *)
CommandFor(type, callback, e) ==
  IF type = "Click" THEN getClick(callback.button, e)
  ELSE getInputCommandFromEntity(callback.button, getPointerEvent(type), e)

(* PointerEventSystem, and the end of the tick.                            *)
PointerEventSystem ==
  LET gone == {e \in Entities : entityState[e] = "removed"}
      live == {x \in (Entities \ gone) \X EventTypes :
                 pointer.eventsMap[x[1]][x[2]] # NoCallback}
      calls == UNION {{[id |-> pointer.eventsMap[x[1]][x[2]].id, serial |-> c.serial] :
                         c \in CommandFor(x[2], pointer.eventsMap[x[1]][x[2]], x[1])} :
                      x \in live}
  IN  /\ pointer.phase = "systems"
      /\ pointer' = [pointer EXCEPT
           !.eventsMap = [e \in Entities |-> IF e \in gone
                                             THEN [t \in EventTypes |-> NoCallback]
                                             ELSE @[e]],
           !.phase = "renderer",
           !.heard = @ \cup calls,
           !.heardAgain = @ \/ pointer.heard \cap calls # {}]
      /\ entityState' = [e \in Entities |-> IF entityState[e] = "removing"
                                            THEN "removed" ELSE entityState[e]]
      /\ UNCHANGED input

(* The input system, before all other systems.                             *)
InputStep ==
  /\ pointer.phase = "renderer" /\ InputFrame
  /\ pointer' = [pointer EXCEPT !.phase = "systems"]
  /\ UNCHANGED entityState

RendererStep(e, button, state, later) ==
  /\ pointer.phase = "renderer" /\ entityState[e] = "used"
  /\ RendererCommand(e, button, state, later)
  /\ UNCHANGED <<pointer, entityState>>

(* A removed entity loses its components; the map is cleaned in a frame.   *)
RemoveEntity(e) ==
  /\ pointer.phase = "systems" /\ entityState[e] = "used"
  /\ entityState' = [entityState EXCEPT ![e] = "removing"]
  /\ pointer' = [pointer EXCEPT !.PointerEvents[e] = {}]
  /\ input' = [input EXCEPT !.row[e] = <<>>]

Next ==
  \/ InputStep \/ PointerEventSystem
  \/ \E e \in Entities :
       \/ RemoveEntity(e)
       \/ \E f \in Registrations :
            removeOnPointer(f, e) \/ \E opts \in Options[f] : onPointer(f, e, opts)
       \/ \E b \in Buttons, state \in States, later \in BOOLEAN :
            RendererStep(e, b, state, later)

Spec == Init /\ [][Next]_vars
-----------------------------------------------------------------------------
(* A callback gets a command in one frame only.                            *)
HeardAtMostOnce == ~pointer.heardAgain

(* Every callback of an entity in use is announced to the renderer, also   *)
(* after others were set, replaced and removed: without its entry the      *)
(* renderer sends nothing and the callback is dead.  It holds for those    *)
(* callbacks whose announcement no function of another type shares:        *)
(* onClick and onPointerDown of one button share theirs, and removing      *)
(* either silences both.                                                   *)
Alone(type, button) ==
  \A f \in Registrations : \A opts \in Options[f] :
    TypeOf[f] # type /\ getPointerEvent(TypeOf[f]) = getPointerEvent(type) => opts.button # button

CallbackIsAnnounced ==
  \A e \in Entities, t \in EventTypes :
    LET callback == pointer.eventsMap[e][t]
    IN  (entityState[e] = "used" /\ callback # NoCallback /\ Alone(t, callback.button))
          => \E x \in pointer.PointerEvents[e] :
               x.state = getPointerEvent(t) /\ x.button = callback.button

(* A command of the frame that queries without an entity do not see, or a  *)
(* button state older than the frame's presses, is behind a quick press:   *)
(* the frame holds two UP or DOWN of one button not older than it.  In all *)
(* other frames nothing is lost, whatever the order of rows.               *)
BehindQuickPress(c) ==
  \E d1, d2 \in input.frame :
    /\ d1 # d2 /\ d1.button = d2.button /\ IsPress(d1) /\ IsPress(d2)
    /\ d1.timestamp >= c.timestamp /\ d2.timestamp >= c.timestamp

LostOnlyBehindQuickPress ==
  \A c \in input.frame :
    \/ c \in input.thisFrameCommands
         /\ (IsPress(c) => input.buttonState[c.button].timestamp >= c.timestamp)
    \/ BehindQuickPress(c)
=============================================================================
