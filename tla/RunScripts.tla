----------------------------- MODULE RunScripts -----------------------------
(***************************************************************************)
(* The scripts of a scene at run time                                      *)
(* (sdk-commands/src/logic/runtime-script.ts, which the bundler inlines in *)
(* every scene that has scripts; the startup system of                     *)
(* sdk-commands/src/logic/bundle.ts calls it).  The scripts start in       *)
(* ascending order of priority, each priority adds one system, and the     *)
(* systems update their scripts in descending order of priority.  A script *)
(* may remove an entity, its own included, whenever it is called.          *)
(***************************************************************************)
EXTENDS Integers, FiniteSets, Sequences, Functions

CONSTANTS Entities,     \* entities the composites put scripts on
          Paths,        \* script files
          Priorities,   \* numbers
          Shapes,       \* what a script file exports, see Shape below
          MaxScripts    \* bound: script instances of a scene

(* What the module of a script is: functions with a start, a class, an     *)
(* update function alone (which is constructed as a class would be), no    *)
(* function at all, no module, or a start or constructor that throws.      *)
Shape == {"functions", "class", "updateAlone", "none", "missing", "throws"}

ScriptsAssumption == Shapes \subseteq Shape /\ Priorities \subseteq Int

VARIABLE scripts

Script == [entity : Entities, path : Paths, priority : Priorities, shape : Shapes]

(* groupScriptsByPriority: the key of an instance has its position, so     *)
(* that two instances of one file on one entity stay apart.                *)
KeyWithoutIndex(list, i) == <<list[i].entity, list[i].path>>
Key(list, i) == <<list[i].entity, list[i].path, i>>

Group(list, priority) == {i \in DOMAIN list : list[i].priority = priority}

(* Object.entries lists the keys that are natural numbers first, from the  *)
(* smallest, and the others as they were first put in.                     *)
ListedBefore(list, p, q) ==
  \/ p \in Nat /\ (q \in Nat => p < q)
  \/ /\ p \notin Nat /\ q \notin Nat
     /\ \E i \in Group(list, p) : \A j \in Group(list, q) : i < j

StartsBefore(list, i, j) ==
  \/ list[i].priority = list[j].priority /\ i < j
  \/ ListedBefore(list, list[i].priority, list[j].priority)

(* The engine runs the systems from the highest priority.                  *)
UpdatesBefore(list, i, j) ==
  \/ list[i].priority = list[j].priority /\ i < j
  \/ list[i].priority > list[j].priority

(* The lists of these instances, each once.                                *)
Walks(instances) == Bijection(1..Cardinality(instances), instances)

Ascending(list) ==
  {walk \in Walks(DOMAIN list) :
     \A m, n \in DOMAIN walk : m < n => StartsBefore(list, walk[m], walk[n])}

Descending(list, priorities) ==
  {walk \in Walks(UNION {Group(list, p) : p \in priorities}) :
     \A m, n \in DOMAIN walk : m < n => UpdatesBefore(list, walk[m], walk[n])}

-----------------------------------------------------------------------------
Nothing == <<>>

Init ==
  \E n \in 1..MaxScripts : \E list \in [1..n -> Script] : \E todo \in Ascending(list) :
    scripts = [list |-> list, todo |-> todo,
               phase |-> "starting",
               classInstances |-> Nothing, functionScripts |-> Nothing,
               registry |-> Nothing,
               systems |-> {}, removed |-> {}, atTick |-> {},
               turn |-> <<>>, updated |-> <<>>, ticked |-> FALSE]

Put(map, key, value) ==
  [k \in DOMAIN map \cup {key} |-> IF k = key THEN value ELSE map[k]]

(* The rest of the loops over priorities and instances once script i is    *)
(* dealt with; the last of a priority adds the system of that priority.    *)
Advanced(s, i) ==
  LET rest == Tail(s.todo) IN
  [s EXCEPT !.todo = rest,
            !.systems = IF \E n \in 1..Len(rest) :
                             s.list[rest[n]].priority = s.list[i].priority
                          THEN @ ELSE @ \cup {s.list[i].priority},
            !.phase = IF rest = <<>> THEN "running" ELSE @]

(* A removed entity, an unknown module or one without any function: the    *)
(* script is passed over.                                                  *)
StartSkipped ==
  /\ scripts.todo # <<>>
  /\ LET i == Head(scripts.todo) IN
     /\ \/ scripts.list[i].entity \in scripts.removed
        \/ scripts.list[i].shape \in {"none", "missing"}
     /\ scripts' = Advanced(scripts, i)

Starting(shapes) ==
  /\ scripts.todo # <<>>
  /\ scripts.list[Head(scripts.todo)].shape \in shapes
  /\ scripts.list[Head(scripts.todo)].entity \notin scripts.removed

Registered(s, i) ==
  Put(s.registry, <<s.list[i].entity, s.list[i].path>>, i)

(* start() or the constructor runs, and may remove entities; then the      *)
(* instance is kept under its key and in the registry.                     *)
StartFunctions(gone) ==
  /\ Starting({"functions"})
  /\ LET i == Head(scripts.todo) IN
     scripts' = Advanced([scripts EXCEPT
                            !.removed = @ \cup gone,
                            !.functionScripts = Put(@, Key(scripts.list, i), i),
                            !.registry = Registered(scripts, i)], i)

StartClass(gone) ==
  /\ Starting({"class", "updateAlone"})
  /\ LET i == Head(scripts.todo) IN
     scripts' = Advanced([scripts EXCEPT
                            !.removed = @ \cup gone,
                            !.classInstances = Put(@, Key(scripts.list, i), i),
                            !.registry = Registered(scripts, i)], i)

(* The error is thrown again: no later script starts, this priority has no *)
(* system, and the startup system does not call main().                    *)
StartThrows ==
  /\ Starting({"throws"})
  /\ scripts' = [scripts EXCEPT !.todo = <<>>, !.phase = "failed"]

-----------------------------------------------------------------------------
(* A tick walks the systems of the scripts.                                *)
Tick ==
  /\ scripts.phase \in {"running", "failed"} /\ scripts.turn = <<>>
  /\ scripts.systems # {}
  /\ \E walk \in Descending(scripts.list, scripts.systems) :
       scripts' = [scripts EXCEPT !.turn = walk, !.updated = <<>>, !.ticked = TRUE,
                                  !.atTick = scripts.removed]

InstanceOf(s, key) ==
  IF key \in DOMAIN s.classInstances THEN {s.classInstances[key]}
  ELSE IF key \in DOMAIN s.functionScripts THEN {s.functionScripts[key]} ELSE {}

HasUpdate(s, i) == s.list[i].shape # "updateAlone"

(* Whom the body of a system calls in one turn of its loop.                *)
Called(s) ==
  {i \in InstanceOf(s, Key(s.list, Head(s.turn))) :
     s.list[i].entity \notin s.removed /\ HasUpdate(s, i)}

(* update() runs, and may remove entities; an error is logged.             *)
Update(gone) ==
  /\ scripts.turn # <<>>
  /\ \E i \in Called(scripts) :
       scripts' = [scripts EXCEPT !.turn = Tail(@), !.updated = Append(@, i),
                                  !.removed = @ \cup gone]

UpdateNobody ==
  /\ scripts.turn # <<>> /\ Called(scripts) = {}
  /\ scripts' = [scripts EXCEPT !.turn = Tail(@)]

Gone == {g \in SUBSET Entities : Cardinality(g) <= 1}

Next ==
  \/ StartSkipped
  \/ \E gone \in Gone : StartFunctions(gone) \/ StartClass(gone) \/ Update(gone)
  \/ StartThrows
  \/ Tick
  \/ UpdateNobody

Spec == Init /\ [][Next]_scripts

-----------------------------------------------------------------------------
TypeOK ==
  /\ scripts.phase \in {"starting", "running", "failed"}
  /\ scripts.systems \subseteq Priorities
  /\ scripts.removed \subseteq Entities
  /\ \A map \in {scripts.classInstances, scripts.functionScripts, scripts.registry} :
       \A k \in DOMAIN map : map[k] \in 1..Len(scripts.list)

(* Every script that started is updated once in every tick, as long as its *)
(* entity is alive, in descending order of priority, and no script is      *)
(* updated once its entity is removed - whatever other instances of the    *)
(* same file the entity has (runScripts and groupScriptsByPriority).       *)
ScriptsKeepTheirTurn ==
  /\ \A m, n \in 1..Len(scripts.updated) :
       m < n => /\ scripts.updated[m] # scripts.updated[n]
                /\ scripts.list[scripts.updated[m]].priority
                     >= scripts.list[scripts.updated[n]].priority
  /\ \A n \in 1..Len(scripts.updated) :
       scripts.list[scripts.updated[n]].entity \notin scripts.atTick
  /\ scripts.phase = "running" /\ scripts.ticked /\ scripts.turn = <<>> =>
       \A i \in 1..Len(scripts.list) :
         /\ scripts.list[i].shape \in {"functions", "class"}
         /\ scripts.list[i].entity \notin scripts.removed
         => \E n \in 1..Len(scripts.updated) : scripts.updated[n] = i
=============================================================================
