-------------------------- MODULE ComponentRegistry --------------------------
(***************************************************************************)
(* The component definitions of an engine (preEngine in                    *)
(* ecs/src/engine/index.ts): code asks for a component by name and keeps   *)
(* the definition it is given as a handle; the definitions registered are  *)
(* those whose values a tick sends, under the number of their name.        *)
(*                                                                         *)
(* A definition is a record of name, kind and serial number; Number stands *)
(* for componentNumberFromName.  unsent are the definitions with a value   *)
(* that was written since the last tick; missed, those a tick has passed   *)
(* over; dropped, the definitions removeComponentDefinition took out.      *)
(***************************************************************************)
EXTENDS Naturals, FiniteSets, Functions

CONSTANTS Names, Kinds,
          Number,          \* of each name, the number of the component
          MaxDefinitions   \* bound on the definitions made

VARIABLE registry

Init ==
  registry = [componentsDefinition |-> [n \in {} |-> {}], sealed |-> FALSE, made |-> 0,
              handles |-> {}, unsent |-> {}, missed |-> {}, dropped |-> {}]

Definitions == [name : Names, kind : Kinds, serial : 1 .. MaxDefinitions]

-----------------------------------------------------------------------------
getComponentOrNull(number) ==
  IF number \in DOMAIN registry.componentsDefinition
  THEN {registry.componentsDefinition[number]} ELSE {}

(* A new definition takes the number of its name.                          *)
Defined(name, kind) ==
  LET d == [name |-> name, kind |-> kind, serial |-> registry.made + 1]
  IN  [registry EXCEPT !.made = @ + 1, !.handles = @ \cup {d},
         !.componentsDefinition =
            [n \in DOMAIN @ \cup {Number[name]} |-> IF n = Number[name] THEN d ELSE @[n]]]

(* defineComponent, defineComponentFromSchema and                          *)
(* defineValueSetComponentFromSchema: who has the number already is handed *)
(* out again, whatever its name and kind, also when the engine is sealed.  *)
(* Faulty variant: a new definition each time.                             *)
defineAnew(name, kind) ==
  /\ ~registry.sealed /\ registry.made < MaxDefinitions
  /\ registry' = Defined(name, kind)
defineComponent(name, kind) ==
  IF getComponentOrNull(Number[name]) # {}
  THEN registry' = [registry EXCEPT !.handles = @ \cup getComponentOrNull(Number[name])]
  ELSE /\ ~registry.sealed /\ registry.made < MaxDefinitions
       /\ registry' = Defined(name, kind)

(* A definition made elsewhere; throws if its number is taken.             *)
registerComponentDefinition(name, kind) ==
  /\ ~registry.sealed /\ registry.made < MaxDefinitions
  /\ getComponentOrNull(Number[name]) = {}
  /\ registry' = Defined(name, kind)

removeComponentDefinition(number) ==
  /\ ~registry.sealed
  /\ registry' = [registry EXCEPT
       !.dropped = @ \cup getComponentOrNull(number),
       !.componentsDefinition = Restrict(@, DOMAIN @ \ {number})]

seal == registry' = [registry EXCEPT !.sealed = TRUE]

(* Somebody who has a handle writes a value through it.                    *)
Write(d) ==
  /\ d \in registry.handles
  /\ registry' = [registry EXCEPT !.unsent = @ \cup {d}]

(* The end of a tick: sendMessages takes the dirty values of the           *)
(* definitions of componentsIter.                                          *)
componentsIter == Range(registry.componentsDefinition)

Tick ==
  registry' = [registry EXCEPT !.unsent = @ \ componentsIter,
                               !.missed = registry.unsent \ componentsIter]

Next ==
  \/ seal \/ Tick
  \/ \E name \in Names, kind \in Kinds :
       defineComponent(name, kind) \/ registerComponentDefinition(name, kind)
  \/ \E name \in Names : removeComponentDefinition(Number[name])
  \/ \E d \in registry.handles : Write(d)

Spec == Init /\ [][Next]_registry
-----------------------------------------------------------------------------
(* Type invariant: a definition is registered under its name's number.     *)
TypeOK ==
  /\ registry.handles \subseteq Definitions
  /\ \A n \in DOMAIN registry.componentsDefinition :
       Number[registry.componentsDefinition[n].name] = n

(* Modules of a scene that define the same component share it: whatever    *)
(* order they asked in, and sealed or not, a value written through any     *)
(* handle is sent by the next tick, unless the component was taken out     *)
(* with removeComponentDefinition (index.ts:114, 132, 150, 256).           *)
EveryHandleIsSent == registry.missed \subseteq registry.dropped
=============================================================================
