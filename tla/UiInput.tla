------------------------------- MODULE UiInput -------------------------------
(***************************************************************************)
(* A controlled Input of react-ecs, whose value is a variable of the scene *)
(* that onChange sets: react-ecs/src/reconciler/index.ts, with the way a   *)
(* dirty component is sent (ecs/src/engine/lww-element-set-component-      *)
(* definition.ts).                                                         *)
(*                                                                         *)
(* The renderer shows what it is sent and what the user types, and reports *)
(* the latter in UiInputResult.  React writes UiInput only where the       *)
(* properties of two renderings differ, the host leaves out the value the  *)
(* renderer reported last, and the component is sent only if its bytes are *)
(* not those sent last.                                                    *)
(***************************************************************************)
EXTENDS Naturals

CONSTANTS
  Texts,
  EmptyText,     \* one of Texts, the first value
  SceneChanges,  \* besides the echo: a subset of {"value", "color"}
  NoText         \* not one of Texts

VARIABLES field

vars == <<field>>

(* typed and programmatic are not in the code: what the user typed last,   *)
(* and whether the scene set its variable since then, to another value than*)
(* that of the rendering before.                                           *)
InputFieldInit ==
  field = [inputValue |-> EmptyText,               \* the variable of the scene
           props      |-> [value |-> EmptyText, color |-> 0],
           UiInput    |-> [value |-> EmptyText, color |-> 0],
           lastSentData |-> [value |-> EmptyText, color |-> 0],
           lastInputResultValue |-> NoText,
           UiInputResult |-> NoText,               \* reported, not received
           onItsWay   |-> NoText,                  \* sent, not shown yet
           screen     |-> EmptyText,
           typed |-> NoText, programmatic |-> FALSE]

Init == InputFieldInit

TypeOK ==
  /\ {field.inputValue, field.props.value, field.UiInput.value, field.screen} \subseteq Texts
  /\ {field.lastInputResultValue, field.UiInputResult, field.onItsWay} \subseteq
       Texts \cup {NoText}
-----------------------------------------------------------------------------
(* The subscription of updateOnChange, when the result is received.        *)
Received(f) ==
  IF f.UiInputResult = NoText THEN f
  ELSE [f EXCEPT !.lastInputResultValue = f.UiInputResult,
                 !.inputValue = f.UiInputResult,
                 !.UiInputResult = NoText]

(* Faulty variant: the value is written whoever it comes from.             *)
upsertComponentEchoing(f, next) == [f EXCEPT !.UiInput = next, !.props = next]

(* prepareUpdate, commitUpdate and upsertComponent: a value that is the one*)
(* reported last is stripped from the changes.                             *)
upsertComponent(f, next) ==
  LET echo == next.value = f.props.value \/ next.value = f.lastInputResultValue
  IN  [f EXCEPT !.UiInput = [value |-> IF echo THEN @.value ELSE next.value,
                             color |-> next.color],
                !.props = next]

(* createGetCrdtMessagesForLww for this entity.                            *)
Sent(f) ==
  IF f.UiInput = f.lastSentData THEN f
  ELSE [f EXCEPT !.lastSentData = f.UiInput, !.onItsWay = f.UiInput.value]

SceneSteps(f) ==
  {[field |-> f, color |-> f.props.color]}
  \cup {[field |-> [f EXCEPT !.inputValue = v, !.programmatic = v # f.props.value],
         color |-> f.props.color] : v \in {x \in Texts : "value" \in SceneChanges}}
  \cup {[field |-> f, color |-> 1 - f.props.color] :
          x \in {y \in {1} : "color" \in SceneChanges}}

Tick ==
  /\ field.onItsWay = NoText
  /\ \E step \in SceneSteps(Received(field)) :
       field' = Sent(upsertComponent(step.field, [value |-> step.field.inputValue,
                                                  color |-> step.color]))

UserTypes(text) ==
  /\ text # field.screen
  /\ field' = [field EXCEPT !.screen = text, !.UiInputResult = text,
                            !.typed = text, !.programmatic = FALSE]

RendererShows ==
  /\ field.onItsWay # NoText
  /\ field' = [field EXCEPT !.screen = field.onItsWay, !.onItsWay = NoText]

Next == Tick \/ RendererShows \/ \E text \in Texts : UserTypes(text)

Spec == Init /\ [][Next]_vars
-----------------------------------------------------------------------------
(* "This avoids sending a stale value that overwrites what the user is     *)
(* currently typing": of a scene that only echoes, the screen shows what   *)
(* was typed last, however typing and ticks alternate.                     *)
TypingIsNotOverwritten ==
  field.typed # NoText => field.screen = field.typed

(* Not an invariant once the scene sets the value itself.  "should still   *)
(* allow programmatic value changes that differ from renderer state": the  *)
(* value the scene set since the user typed is shown.                      *)
ProgrammaticValueShown ==
  (field.programmatic /\ field.onItsWay = NoText) => field.screen = field.inputValue
=============================================================================
